---- MODULE Spec2Model ----
(***************************************************************************)
(* The expression compiler of goja (compiler_expr.go): compiled-expression *)
(* nodes, the code their emitGetter appends to the current Program, the    *)
(* constant folder with its embedded VM, identifier deletion, object       *)
(* literals and the parameter loop of function literals.                   *)
(***************************************************************************)
EXTENDS Integers, Sequences, FiniteSets, TLC

VARIABLES ast, node, phase, code, srcMap, err, scope, putOnStack, entry, prgs

vars == <<ast, node, phase, code, srcMap, err, scope, putOnStack, entry, prgs>>

(***************************************************************************)
(* Bounds of the model.                                                    *)
(***************************************************************************)
MaxDepth == 2
MaxParams == 2
MaxProps == 2

\* Let(v, F): F applied to v, naming the value v once
Let(v, F(_)) == F(v)

(***************************************************************************)
(* Values of the runtime (Value): t is the type tag, n the numeric payload, *)
(* s the string payload, m the message of an error object.                 *)
(***************************************************************************)
Val(t, n, s) == [t |-> t, n |-> n, s |-> s, m |-> ""]
NoVal == Val("none", 0, "")
_undefined == Val("undef", 0, "")
_null == Val("null", 0, "")
valueTrue == Val("bool", 1, "")
valueFalse == Val("bool", 0, "")
intToValue(n) == Val("num", n, "")
valueBigInt(n) == Val("bigint", n, "")
_NaN == Val("nan", 0, "")
_Infinity(sign) == Val("inf", sign, "")
newStringValue(s) == Val("str", 0, s)
ErrorObject(name, msg) == [t |-> "error", n |-> 0, s |-> name, m |-> msg]

NoMessage == "<no message>"
NoEx == [name |-> "", msg |-> ""]

ToBoolean(v) ==
  CASE v.t \in {"undef", "null", "nan", "none"} -> FALSE
    [] v.t \in {"bool", "num", "bigint"} -> v.n # 0
    [] v.t = "str" -> v.s # ""
    [] OTHER -> TRUE

Digit(d) ==
  CASE d = 0 -> "0" [] d = 1 -> "1" [] d = 2 -> "2" [] d = 3 -> "3" [] d = 4 -> "4"
    [] d = 5 -> "5" [] d = 6 -> "6" [] d = 7 -> "7" [] d = 8 -> "8" [] OTHER -> "9"

RECURSIVE NumStr(_)
NumStr(n) ==
  IF n < 0 THEN "-" \o NumStr(-n)
  ELSE IF n < 10 THEN Digit(n)
  ELSE NumStr(n \div 10) \o Digit(n % 10)

\* Value.toString() on the values of the model
ToStr(v) ==
  CASE v.t = "undef" -> "undefined"
    [] v.t = "null" -> "null"
    [] v.t = "bool" -> IF v.n = 1 THEN "true" ELSE "false"
    [] v.t \in {"num", "bigint"} -> NumStr(v.n)
    [] v.t = "nan" -> "NaN"
    [] v.t = "inf" -> IF v.n < 0 THEN "-Infinity" ELSE "Infinity"
    [] v.t = "str" -> v.s
    [] OTHER -> "[object]"

\* Value.ToNumber() for the non-BigInt values of the model; every string the
\* model can build holds a letter, except the empty one
ToNum(v) ==
  CASE v.t = "undef" -> _NaN
    [] v.t = "null" -> intToValue(0)
    [] v.t = "bool" -> intToValue(v.n)
    [] v.t = "str" -> IF v.s = "" THEN intToValue(0) ELSE _NaN
    [] OTHER -> v

TypeOfStr(v) ==
  CASE v.t = "undef" -> "undefined"
    [] v.t = "null" -> "object"
    [] v.t = "bool" -> "boolean"
    [] v.t \in {"num", "nan", "inf"} -> "number"
    [] v.t = "bigint" -> "bigint"
    [] v.t = "str" -> "string"
    [] OTHER -> "object"

MixMsg == "Cannot mix BigInt and other types, use explicit conversions"
DivZeroMsg == "Division by zero"
BigToNumMsg == "Cannot convert a BigInt value to a number"
InMsg == "Cannot use 'in' operator to search for a key in a non-object"

Ok(v) == [v |-> v, ex |-> NoEx]
Thrown(name, msg) == [v |-> NoVal, ex |-> [name |-> name, msg |-> msg]]

Sgn(n) == IF n < 0 THEN -1 ELSE IF n > 0 THEN 1 ELSE 0

NumAdd(a, b) ==
  CASE a.t = "nan" \/ b.t = "nan" -> _NaN
    [] a.t = "inf" /\ b.t = "inf" -> IF a.n = b.n THEN a ELSE _NaN
    [] a.t = "inf" -> a
    [] b.t = "inf" -> b
    [] OTHER -> intToValue(a.n + b.n)

NumNeg(a) ==
  CASE a.t = "nan" -> _NaN
    [] a.t = "inf" -> _Infinity(-a.n)
    [] OTHER -> intToValue(-a.n)

\* number division, on the operands whose quotient is a value of the model
NumDiv(a, b) ==
  CASE a.t = "nan" \/ b.t = "nan" -> _NaN
    [] a.t = "inf" /\ b.t = "inf" -> _NaN
    [] a.t = "inf" -> _Infinity(a.n * (IF b.n < 0 THEN -1 ELSE 1))
    [] b.t = "inf" -> intToValue(0)
    [] b.n = 0 -> IF a.n = 0 THEN _NaN ELSE _Infinity(Sgn(a.n))
    [] a.n % b.n = 0 -> intToValue(a.n \div b.n)
    [] OTHER -> _NaN

\* the VM's binary instructions on two operands
BinaryOp(op, a, b) ==
  CASE op = "add" ->
         IF a.t = "str" \/ b.t = "str" THEN Ok(newStringValue(ToStr(a) \o ToStr(b)))
         ELSE IF a.t = "bigint" /\ b.t = "bigint" THEN Ok(valueBigInt(a.n + b.n))
         ELSE IF a.t = "bigint" \/ b.t = "bigint" THEN Thrown("TypeError", MixMsg)
         ELSE Ok(NumAdd(ToNum(a), ToNum(b)))
    [] op = "sub" ->
         IF a.t = "bigint" /\ b.t = "bigint" THEN Ok(valueBigInt(a.n - b.n))
         ELSE IF a.t = "bigint" \/ b.t = "bigint" THEN Thrown("TypeError", MixMsg)
         ELSE Ok(NumAdd(ToNum(a), NumNeg(ToNum(b))))
    [] op = "div" ->
         IF a.t = "bigint" /\ b.t = "bigint"
         THEN IF b.n = 0 THEN Thrown("RangeError", DivZeroMsg)
              ELSE Ok(valueBigInt(Sgn(a.n) * Sgn(b.n) * ((Sgn(a.n) * a.n) \div (Sgn(b.n) * b.n))))
         ELSE IF a.t = "bigint" \/ b.t = "bigint" THEN Thrown("TypeError", MixMsg)
         ELSE Ok(NumDiv(ToNum(a), ToNum(b)))
    [] op = "op_in" -> Thrown("TypeError", InMsg)
    [] OTHER -> Thrown("TypeError", "unsupported")

\* the VM's unary instructions
UnaryOp(op, a) ==
  CASE op = "not" -> Ok(IF ToBoolean(a) THEN valueFalse ELSE valueTrue)
    [] op = "typeof" -> Ok(newStringValue(TypeOfStr(a)))
    [] op = "neg" -> IF a.t = "bigint" THEN Ok(valueBigInt(-a.n)) ELSE Ok(NumNeg(ToNum(a)))
    [] op = "plus" -> IF a.t = "bigint" THEN Thrown("TypeError", BigToNumMsg) ELSE Ok(ToNum(a))
    [] op = "bnot" ->
         IF a.t = "bigint" THEN Ok(valueBigInt(-a.n - 1))
         ELSE IF ToNum(a).t = "num" THEN Ok(intToValue(-ToNum(a).n - 1))
         ELSE Ok(intToValue(-1))
    [] OTHER -> Thrown("TypeError", "unsupported")


(***************************************************************************)
(* Instructions: op is the mnemonic, n its numeric operand, s its name      *)
(* operand, v the literal value of a loadVal.                               *)
(***************************************************************************)
Instr(op, n, s, v) == [op |-> op, n |-> n, s |-> s, v |-> v]
I0(op) == Instr(op, 0, "", NoVal)
In(op, n) == Instr(op, n, "", NoVal)
Is(op, s) == Instr(op, 0, s, NoVal)
loadVal(v) == Instr("loadVal", 0, "", v)
nilInstr == I0("nil")
pop == I0("pop")
dup == I0("dup")
loadUndef == I0("loadUndef")
halt == I0("halt")

(***************************************************************************)
(* Expression trees.  The parser's AST and the compiled nodes share one     *)
(* record shape: kind, tok (operator token, property kind), name, val,      *)
(* flag (postfix, computed, variadic, valid), strs (template elements),     *)
(* kids (sub-expressions) and offset (Idx0 - 1).                            *)
(***************************************************************************)
Node(kind, tok, name, val, flag, strs, kids, offset) ==
  [kind |-> kind, tok |-> tok, name |-> name, val |-> val, flag |-> flag,
   strs |-> strs, kids |-> kids, offset |-> offset]
Nil == Node("nil", "", "", NoVal, FALSE, <<>>, <<>>, -1)
Leaf(kind, name, val, flag) == Node(kind, "", name, val, flag, <<>>, <<>>, 1)
Tree(kind, tok, flag, kids) == Node(kind, tok, "", NoVal, flag, <<>>, kids, 1)

\* baseCompiledExpr.init: offset = idx - 1
init(e, idx) == [e EXCEPT !.offset = idx - 1]

(***************************************************************************)
(* Scopes.  A chain is a sequence, outermost first; a binding is named by   *)
(* the index of its scope, 0 meaning no binding.                            *)
(***************************************************************************)
\* a binding of a scope: useCount is the number of its access points
NewBinding(name) == [name |-> name, useCount |-> 0, inStash |-> FALSE, isVar |-> FALSE]

RECURSIVE Bindings(_)
\* one binding for each of the names
Bindings(names) ==
  IF names = {} THEN <<>>
  ELSE Let(CHOOSE n \in names : TRUE, LAMBDA n : <<NewBinding(n)>> \o Bindings(names \ {n}))

NewScope(strict, function, arrow, dynamic, names) ==
  [strict |-> strict, function |-> function, arrow |-> arrow, variable |-> FALSE,
   eval |-> FALSE, dynamic |-> dynamic, dynLookup |-> FALSE, thisNeeded |-> FALSE,
   argsNeeded |-> FALSE, argsInStash |-> FALSE, needStash |-> FALSE, numArgs |-> 0,
   names |-> names, bindings |-> Bindings(names)]

\* scope.boundNames[name]: the index in bindings of the binding the name
\* stands for, the last one bound under that name
boundIndex(sc, name) ==
  Let({i \in 1..Len(sc.bindings) : sc.bindings[i].name = name}, LAMBDA ix :
  IF ix = {} THEN 0 ELSE CHOOSE i \in ix : \A j \in ix : j <= i)

\* scope.isDynamic
isDynamic(sc) == sc.dynLookup \/ sc.dynamic

RECURSIVE lookupFrom(_, _, _, _)
lookupFrom(chain, i, name, noDynamics) ==
  IF i = 0 THEN [b |-> 0, noDynamics |-> noDynamics]
  ELSE IF name \in chain[i].names THEN [b |-> i, noDynamics |-> noDynamics]
  ELSE IF name = "arguments" /\ chain[i].function /\ ~chain[i].arrow
  THEN [b |-> i, noDynamics |-> noDynamics /\ ~chain[i].dynamic]
  ELSE lookupFrom(chain, i - 1, name, noDynamics /\ ~chain[i].dynamic)

\* scope.lookupName: the binding found on the outer chain, and whether no
\* dynamic scope lies on the way to it
lookupName(chain, name) == lookupFrom(chain, Len(chain), name, TRUE)

\* what lookupName does to the chain: `arguments`, when no scope up to the
\* nearest non-arrow function binds it, is bound there and argsNeeded set
bindArguments(st, name) ==
  Let(lookupName(st.scope, name).b, LAMBDA k :
  IF st.err # "" \/ name # "arguments" \/ k = 0 THEN st
     ELSE IF name \in st.scope[k].names THEN st
     ELSE [st EXCEPT !.scope[k].argsNeeded = TRUE,
                     !.scope[k].names = @ \cup {name},
                     !.scope[k].bindings = Append(@, [NewBinding(name) EXCEPT !.isVar = TRUE])])

CurStrict(st) == st.scope[Len(st.scope)].strict

(***************************************************************************)
(* The compiler: the current Program (code, srcMap), the scope chain, the   *)
(* SyntaxError or panic that ended compilation, and the embedded eval VM    *)
(* (evalOn: evalVM.prg is set and is the current Program).                  *)
(***************************************************************************)
NewCompiler(chain) ==
  [code |-> <<>>, srcMap |-> <<>>, err |-> "", errAt |-> -1, scope |-> chain,
   evalOn |-> FALSE, ecode |-> <<>>, esrcMap |-> <<>>, prgs |-> <<>>,
   block |-> <<"blockScope">>, jumpsOk |-> TRUE]

\* a Program other than the one being compiled, when the compiler is done
\* with it: the Program of a constant evaluation or of a function literal
Program(kind, pcode, psrcMap, pscope) ==
  [kind |-> kind, code |-> pcode, srcMap |-> psrcMap, scope |-> pscope]

CurCode(st) == IF st.evalOn THEN st.ecode ELSE st.code

\* compiler.emit
emit(st, i) ==
  IF st.err # "" THEN st
  ELSE IF st.evalOn THEN [st EXCEPT !.ecode = Append(@, i)]
  ELSE [st EXCEPT !.code = Append(@, i)]

emit2(st, i, j) == emit(emit(st, i), j)

\* the jumps whose operand is relative to their own pc
RelativeJumps == {"jne", "jump", "jeq1", "jneq1", "jdef", "jdefP"}

\* c.p.code[pc] = i, with pc counted from 0 as in the source; jumpsOk is a
\* history of the writes: it stays true as long as every relative jump
\* written goes forward and not beyond the end of the code it is written to
patch(st, pc, i) ==
  IF st.err # "" THEN st
  ELSE Let([st EXCEPT !.jumpsOk = @ /\ (i.op \in RelativeJumps
                                         => i.n > 0 /\ pc + i.n <= Len(CurCode(st)))], LAMBDA s1 :
       IF s1.evalOn THEN [s1 EXCEPT !.ecode[pc + 1] = i]
       ELSE [s1 EXCEPT !.code[pc + 1] = i])

throwSyntaxError(st, msg) == IF st.err # "" THEN st ELSE [st EXCEPT !.err = msg]
\* compiler.throwSyntaxError(offset, msg), keeping the offset
throwSyntaxErrorAt(st, offset, msg) ==
  IF st.err # "" THEN st ELSE [st EXCEPT !.err = msg, !.errAt = offset]
panic(st, msg) == IF st.err # "" THEN st ELSE [st EXCEPT !.err = "panic: " \o msg]

addSrcMap(e, st) ==
  IF st.err # "" \/ e.offset <= 0 THEN st
  ELSE Let([pc |-> Len(CurCode(st)), srcPos |-> e.offset], LAMBDA item :
       IF st.evalOn THEN [st EXCEPT !.esrcMap = Append(@, item)]
          ELSE [st EXCEPT !.srcMap = Append(@, item)])

\* binding.emitGet / emitGetP / emitGetVar / emitSet / emitSetP / emitResolveVar
\* binding.markAccessPoint on the i-th binding of the k-th scope
markAccessPoint(st, k, i) ==
  IF st.err # "" THEN st ELSE [st EXCEPT !.scope[k].bindings[i].useCount = @ + 1]

bindingEmit(st, what, name) ==
  Let(lookupName(st.scope, name).b, LAMBDA k :
  markAccessPoint(emit(st, Is(what, name)), k, boundIndex(st.scope[k], name)))


(***************************************************************************)
(* The embedded VM (vm.runTry) on the instructions a constant expression    *)
(* emits.  pc and jump targets count from 0.                                *)
(***************************************************************************)
UnaryInstrs == {"not", "typeof", "neg", "plus", "bnot"}
BinaryInstrs == {"op_lt", "op_gt", "op_lte", "op_gte", "op_eq", "op_neq", "op_strict_eq",
                 "op_strict_neq", "add", "sub", "mul", "div", "mod", "and", "or", "xor",
                 "op_instanceof", "op_in", "sal", "sar", "shr"}

Top(stk) == stk[Len(stk)]
Drop(stk, k) == SubSeq(stk, 1, Len(stk) - k)

RECURSIVE runTry(_, _, _)
runTry(prg, pc, stk) ==
  IF pc >= Len(prg) THEN [ex |-> NoEx, stk |-> stk]
  ELSE
    Let(prg[pc + 1], LAMBDA i :
    CASE i.op = "halt" -> [ex |-> NoEx, stk |-> stk]
      [] i.op = "loadVal" -> runTry(prg, pc + 1, Append(stk, i.v))
      [] i.op = "loadUndef" -> runTry(prg, pc + 1, Append(stk, _undefined))
      [] i.op = "pop" -> runTry(prg, pc + 1, Drop(stk, 1))
      [] i.op = "loadDynamic" -> runTry(prg, pc + 1, Append(stk, Val("ctor", 0, i.s)))
      [] i.op = "_new" ->
           Let(stk[Len(stk) - i.n], LAMBDA ctor :
           Let(IF i.n = 0 THEN "" ELSE ToStr(Top(stk)), LAMBDA msg :
           runTry(prg, pc + 1, Append(Drop(stk, i.n + 1), ErrorObject(ctor.s, msg)))))
      [] i.op = "throw" ->
           [ex |-> [name |-> Top(stk).s, msg |-> Top(stk).m], stk |-> Drop(stk, 1)]
      [] i.op \in UnaryInstrs ->
           Let(UnaryOp(i.op, Top(stk)), LAMBDA r :
           IF r.ex # NoEx THEN [ex |-> r.ex, stk |-> Drop(stk, 1)]
              ELSE runTry(prg, pc + 1, Append(Drop(stk, 1), r.v)))
      [] i.op \in BinaryInstrs ->
           Let(BinaryOp(i.op, stk[Len(stk) - 1], Top(stk)), LAMBDA r :
           IF r.ex # NoEx THEN [ex |-> r.ex, stk |-> Drop(stk, 2)]
              ELSE runTry(prg, pc + 1, Append(Drop(stk, 2), r.v)))
      [] OTHER -> [ex |-> [name |-> "Error", msg |-> "not a constant instruction"], stk |-> stk])

(***************************************************************************)
(* compiler.emitThrow                                                       *)
(***************************************************************************)
emitThrow(st, ex) ==
  IF ex.name \in {"RangeError", "TypeError"}
  THEN Let(emit(st, Is("loadDynamic", ex.name)), LAMBDA s1 :
       Let(IF ex.msg # NoMessage
                 THEN emit2(s1, loadVal(newStringValue(ex.msg)), In("_new", 1))
                 ELSE emit(s1, In("_new", 0)), LAMBDA s2 :
       emit(s2, I0("throw"))))
  ELSE panic(st, "unknown exception type thrown while evaluating constant expression")

\* the closures handed to emitUnary: prepare is toNumber or nil, body emits
\* one instruction, preceded by the right operand for a compound assignment
NoPrepare == "nil"
BodyInstr(op) == [op |-> op, right |-> Nil]
BodyAssign(op, right) == [op |-> op, right |-> right]

prepare(st, p) == IF p = NoPrepare THEN st ELSE emit(st, I0(p))


(***************************************************************************)
(* The emitters.  Each takes the compiler state and returns it with the     *)
(* emitted code appended; once err is set nothing more is emitted.          *)
(***************************************************************************)
\* Every recursion of the compiler goes through Call: the operation named
\* f applied to the arguments a.
RECURSIVE Call(_, _)

Args(e, put, st) == [e |-> e, put |-> put, st |-> st]

\* compiledExpr.emitGetter(putOnStack), dispatched on the node's type
emitGetter(e, put, st) == Call("emitGetter", Args(e, put, st))
\* compiledExpr.constant(), dispatched on the node's type
constant(e, st) == Call("constant", Args(e, FALSE, st))
emitExpr(expr, put, st) == Call("emitExpr", Args(expr, put, st))
evalConst(expr, st) == Call("evalConst", Args(expr, FALSE, st))
compileExpression(v, st) == Call("compileExpression", Args(v, FALSE, st))
emitCallee(callee, st) == Call("emitCallee", Args(callee, FALSE, st))

\* compiler.checkIdentifierLName
StrictReserved == {"implements", "interface", "let", "package", "private", "protected",
                   "public", "static", "yield"}

\* compiler.checkIdentifierName
checkIdentifierName(st, name) ==
  IF name \in StrictReserved THEN throwSyntaxError(st, "Unexpected strict mode reserved word") ELSE st

checkIdentifierLName(st, name) ==
  IF name \in {"eval", "arguments"}
  THEN throwSyntaxError(st, "Assignment to eval or arguments is not allowed in strict mode")
  ELSE st

runBody(st, body) ==
  Let(IF body.right = Nil THEN st ELSE emitGetter(body.right, TRUE, st), LAMBDA s1 :
  emit(s1, I0(body.op)))

compiledLiteral_emitGetter(e, put, st) ==
  IF put THEN emit(addSrcMap(e, st), loadVal(e.val)) ELSE st

constantExpr_emitGetter(e, put, st) ==
  IF put THEN emit(addSrcMap(e, st), loadVal(e.val)) ELSE st

compiledIdentifierExpr_emitGetter(e, put, st) ==
  Let(bindArguments(addSrcMap(e, st), e.name), LAMBDA s0 :
  Let(lookupName(s0.scope, e.name), LAMBDA r :
  IF r.noDynamics
     THEN IF r.b # 0
          THEN bindingEmit(s0, IF put THEN "b.emitGet" ELSE "b.emitGetP", e.name)
          ELSE panic(s0, "No dynamics and not found")
     ELSE Let(IF r.b # 0 THEN emit(s0, Instr("b.emitGetVar", 0, e.name, NoVal))
                    ELSE emit(s0, Is("loadDynamic", e.name)), LAMBDA s1 :
          IF ~put THEN emit(s1, pop) ELSE s1)))

compiledIdentifierExpr_emitGetterOrRef(e, st) ==
  Let(bindArguments(addSrcMap(e, st), e.name), LAMBDA s0 :
  Let(lookupName(s0.scope, e.name), LAMBDA r :
  IF r.noDynamics
     THEN IF r.b # 0 THEN bindingEmit(s0, "b.emitGet", e.name)
          ELSE panic(s0, "No dynamics and not found")
     ELSE IF r.b # 0 THEN emit(s0, Instr("b.emitGetVar", 0, e.name, NoVal))
          ELSE emit(s0, Is("loadDynamicRef", e.name))))

compiledIdentifierExpr_emitGetterAndCallee(e, st) ==
  Let(bindArguments(addSrcMap(e, st), e.name), LAMBDA s0 :
  Let(lookupName(s0.scope, e.name), LAMBDA r :
  IF r.noDynamics
     THEN IF r.b # 0 THEN bindingEmit(emit(s0, loadUndef), "b.emitGet", e.name)
          ELSE panic(s0, "No dynamics and not found")
     ELSE IF r.b # 0 THEN emit(s0, Instr("b.emitGetVar", 1, e.name, NoVal))
          ELSE emit(s0, Is("loadDynamicCallee", e.name))))

\* the emitRight closures of emitVarSetter1: the value of an assignment, or
\* the read-modify part of emitUnary
RightValue(valueExpr) ==
  [kind |-> "value", e |-> valueExpr, prep |-> NoPrepare, body |-> BodyInstr(""), postfix |-> FALSE]
RightUnary(kind, e, prep, body, postfix) ==
  [kind |-> kind, e |-> e, prep |-> prep, body |-> body, postfix |-> postfix]

applyRight(st, right, isRef) ==
  IF right.kind = "value" THEN emitExpr(right.e, TRUE, st)
  ELSE
    Let(IF right.kind = "unaryPut" THEN emit(st, loadUndef) ELSE st, LAMBDA s0 :
    Let(IF isRef THEN emit(s0, I0("getValue"))
              ELSE compiledIdentifierExpr_emitGetter(right.e, TRUE, s0), LAMBDA s1 :
    IF right.kind = "unaryPut"
       THEN Let(prepare(s1, right.prep), LAMBDA s2 :
            Let(IF ~right.postfix THEN runBody(s2, right.body) ELSE s2, LAMBDA s3 :
            Let(emit(s3, In("rdupN", 1)), LAMBDA s4 :
            IF right.postfix THEN runBody(s4, right.body) ELSE s4)))
       ELSE runBody(s1, right.body)))

emitVarSetter1_valueFirst(st, name, put, right) ==
  Let(bindArguments(IF CurStrict(st) THEN checkIdentifierLName(st, name) ELSE st, name), LAMBDA s0 :
  Let(lookupName(s0.scope, name), LAMBDA r :
  IF r.noDynamics
     THEN Let(applyRight(s0, right, FALSE), LAMBDA s1 :
          IF r.b # 0
             THEN bindingEmit(s1, IF put THEN "b.emitSet" ELSE "b.emitSetP", name)
             ELSE Let(emit(s1, Is(IF CurStrict(s1) THEN "setGlobalStrict" ELSE "setGlobal", name)), LAMBDA s2 :
                  IF ~put THEN emit(s2, pop) ELSE s2))
     ELSE Let(applyRight(s0, right, TRUE), LAMBDA s1 :
          Let(IF r.b # 0
                    THEN emit(s1, Instr("b.emitResolveVar", IF CurStrict(s0) THEN 1 ELSE 0, name, NoVal))
                    ELSE emit(s1, Is(IF CurStrict(s0) THEN "resolveVar1Strict" ELSE "resolveVar1", name)), LAMBDA s2 :
          emit(s2, I0(IF put THEN "putValue" ELSE "putValueP"))))))

emitVarSetter1(st, name, put, right) ==
  Let(bindArguments(IF CurStrict(st) THEN checkIdentifierLName(st, name) ELSE st, name), LAMBDA s0 :
  Let(lookupName(s0.scope, name), LAMBDA r :
  IF r.noDynamics
     THEN Let(applyRight(s0, right, FALSE), LAMBDA s1 :
          IF r.b # 0
             THEN bindingEmit(s1, IF put THEN "b.emitSet" ELSE "b.emitSetP", name)
             ELSE Let(emit(s1, Is(IF CurStrict(s1) THEN "setGlobalStrict" ELSE "setGlobal", name)), LAMBDA s2 :
                  IF ~put THEN emit(s2, pop) ELSE s2))
     ELSE Let(IF r.b # 0
                    THEN emit(s0, Instr("b.emitResolveVar", IF CurStrict(s0) THEN 1 ELSE 0, name, NoVal))
                    ELSE emit(s0, Is(IF CurStrict(s0) THEN "resolveVar1Strict" ELSE "resolveVar1", name)), LAMBDA s1 :
          Let(applyRight(s1, right, TRUE), LAMBDA s2 :
          emit(s2, I0(IF put THEN "putValue" ELSE "putValueP"))))))

emitVarSetter(st, name, valueExpr, put) == emitVarSetter1(st, name, put, RightValue(valueExpr))

emitVarRef(st, name) ==
  Let(bindArguments(IF CurStrict(st) THEN checkIdentifierLName(st, name) ELSE st, name), LAMBDA s0 :
  Let(lookupName(s0.scope, name), LAMBDA r :
  IF r.b # 0
     THEN emit(s0, Instr("b.emitResolveVar", IF CurStrict(s0) THEN 1 ELSE 0, name, NoVal))
     ELSE emit(s0, Is(IF CurStrict(s0) THEN "resolveVar1Strict" ELSE "resolveVar1", name))))

compiledIdentifierExpr_emitUnary(e, prep, body, postfix, put, st) ==
  IF put
  THEN emit(emitVarSetter1(st, e.name, TRUE, RightUnary("unaryPut", e, prep, body, postfix)), pop)
  ELSE emitVarSetter1(st, e.name, FALSE, RightUnary("unaryNoPut", e, prep, body, postfix))


Left(e) == e.kids[1]
Member(e) == e.kids[2]
StrictOp(st, plain, strict) == IF CurStrict(st) THEN strict ELSE plain

compiledDotExpr_emitGetter(e, put, st) ==
  Let(emit(addSrcMap(e, emitGetter(Left(e), TRUE, st)), Is("getProp", e.name)), LAMBDA s1 :
  IF ~put THEN emit(s1, pop) ELSE s1)

compiledDotExpr_emitRef(e, st) ==
  Let(emitGetter(Left(e), TRUE, st), LAMBDA s1 :
  emit(s1, Is(StrictOp(s1, "getPropRef", "getPropRefStrict"), e.name)))

compiledDotExpr_emitSetter(e, valueExpr, put, st) ==
  Let(emitGetter(valueExpr, TRUE, emitGetter(Left(e), TRUE, st)), LAMBDA s1 :
  IF put THEN emit(s1, Is(StrictOp(s1, "setProp", "setPropStrict"), e.name))
     ELSE emit(s1, Is(StrictOp(s1, "setPropP", "setPropStrictP"), e.name)))

\* the object evaluated a second time where the source duplicates it
compiledDotExpr_emitUnary_twice(e, prep, body, postfix, put, st) ==
  IF ~put
  THEN Let(emit(emitGetter(Left(e), TRUE, emitGetter(Left(e), TRUE, st)), Is("getProp", e.name)), LAMBDA s1 :
       Let(runBody(s1, body), LAMBDA s2 :
       emit2(s2, Is(StrictOp(s2, "setProp", "setPropStrict"), e.name), pop)))
  ELSE IF ~postfix
  THEN Let(emit(emitGetter(Left(e), TRUE, emitGetter(Left(e), TRUE, st)), Is("getProp", e.name)), LAMBDA s1 :
       Let(runBody(prepare(s1, prep), body), LAMBDA s2 :
       emit(s2, Is(StrictOp(s2, "setProp", "setPropStrict"), e.name))))
  ELSE Let(emit(emitGetter(Left(e), TRUE, emitGetter(Left(e), TRUE, emit(st, loadUndef))),
                Is("getProp", e.name)), LAMBDA s1 :
       Let(runBody(emit(prepare(s1, prep), In("rdupN", 2)), body), LAMBDA s2 :
       emit2(s2, Is(StrictOp(s2, "setProp", "setPropStrict"), e.name), pop)))

compiledDotExpr_emitUnary(e, prep, body, postfix, put, st) ==
  IF ~put
  THEN Let(emit2(emitGetter(Left(e), TRUE, st), dup, Is("getProp", e.name)), LAMBDA s1 :
       Let(runBody(s1, body), LAMBDA s2 :
       emit2(s2, Is(StrictOp(s2, "setProp", "setPropStrict"), e.name), pop)))
  ELSE IF ~postfix
  THEN Let(emit2(emitGetter(Left(e), TRUE, st), dup, Is("getProp", e.name)), LAMBDA s1 :
       Let(runBody(prepare(s1, prep), body), LAMBDA s2 :
       emit(s2, Is(StrictOp(s2, "setProp", "setPropStrict"), e.name))))
  ELSE Let(emit2(emitGetter(Left(e), TRUE, emit(st, loadUndef)), dup, Is("getProp", e.name)), LAMBDA s1 :
       Let(runBody(emit(prepare(s1, prep), In("rdupN", 2)), body), LAMBDA s2 :
       emit2(s2, Is(StrictOp(s2, "setProp", "setPropStrict"), e.name), pop)))

compiledBracketExpr_emitGetter(e, put, st) ==
  Let(emitGetter(Member(e), TRUE, emitGetter(Left(e), TRUE, st)), LAMBDA s1 :
  Let(emit(addSrcMap(e, s1), I0("getElem")), LAMBDA s2 :
  IF ~put THEN emit(s2, pop) ELSE s2))

compiledBracketExpr_emitRef(e, st) ==
  Let(emitGetter(Member(e), TRUE, emitGetter(Left(e), TRUE, st)), LAMBDA s1 :
  emit(s1, I0(StrictOp(s1, "getElemRef", "getElemRefStrict"))))

compiledBracketExpr_emitSetter(e, valueExpr, put, st) ==
  Let(emitGetter(Member(e), TRUE, emitGetter(Left(e), TRUE, st)), LAMBDA s1 :
  Let(emitGetter(valueExpr, TRUE, s1), LAMBDA s2 :
  IF put THEN emit(s2, I0(StrictOp(s2, "setElem", "setElemStrict")))
     ELSE emit(s2, I0(StrictOp(s2, "setElemP", "setElemStrictP")))))

compiledBracketExpr_emitUnary(e, prep, body, postfix, put, st) ==
  LET base(s) == emit(emit2(emitGetter(Member(e), TRUE, emitGetter(Left(e), TRUE, s)),
                            In("dupN", 1), In("dupN", 1)), I0("getElem"))
  IN IF ~put
     THEN Let(runBody(base(st), body), LAMBDA s2 :
          emit2(s2, I0(StrictOp(s2, "setElem", "setElemStrict")), pop))
     ELSE IF ~postfix
     THEN Let(runBody(prepare(base(st), prep), body), LAMBDA s2 :
          emit(s2, I0(StrictOp(s2, "setElem", "setElemStrict"))))
     ELSE Let(runBody(emit(prepare(base(emit(st, loadUndef)), prep), In("rdupN", 3)), body), LAMBDA s2 :
          emit2(s2, I0(StrictOp(s2, "setElem", "setElemStrict")), pop))

\* emitSetter / emitUnary / emitRef of a node: identifiers, dot and bracket
\* expressions override baseCompiledExpr, which raises the SyntaxError
RECURSIVE emitArrayPattern(_, _, _, _)
\* compiledArrayAssignmentPattern.emitSetter
compiledArrayAssignmentPattern_emitSetter(e, valueExpr, put, st) ==
  emitArrayPattern(e, "emitPatternAssign", put, emitGetter(valueExpr, TRUE, st))

emitSetter(e, valueExpr, put, st) ==
  CASE e.kind = "compiledIdentifierExpr" -> emitVarSetter(st, e.name, valueExpr, put)
    [] e.kind = "compiledArrayAssignmentPattern" ->
         compiledArrayAssignmentPattern_emitSetter(e, valueExpr, put, st)
    [] e.kind = "compiledDotExpr" -> compiledDotExpr_emitSetter(e, valueExpr, put, st)
    [] e.kind = "compiledBracketExpr" -> compiledBracketExpr_emitSetter(e, valueExpr, put, st)
    [] OTHER -> throwSyntaxError(st, "Not a valid left-value expression")

emitUnary(e, prep, body, postfix, put, st) ==
  CASE e.kind = "compiledIdentifierExpr" -> compiledIdentifierExpr_emitUnary(e, prep, body, postfix, put, st)
    [] e.kind = "compiledDotExpr" -> compiledDotExpr_emitUnary(e, prep, body, postfix, put, st)
    [] e.kind = "compiledBracketExpr" -> compiledBracketExpr_emitUnary(e, prep, body, postfix, put, st)
    [] OTHER -> throwSyntaxError(st, "Not a valid left-value expression")

emitRef(e, st) ==
  CASE e.kind = "compiledIdentifierExpr" -> emitVarRef(st, e.name)
    [] e.kind = "compiledDotExpr" -> compiledDotExpr_emitRef(e, st)
    [] e.kind = "compiledBracketExpr" -> compiledBracketExpr_emitRef(e, st)
    [] OTHER -> throwSyntaxError(st, "Cannot emit reference for this type of expression")

(***************************************************************************)
(* deleteExpr: the node that performs `delete operand`.  Returns the node   *)
(* and the compiler state (a strict scope raises the SyntaxError).          *)
(***************************************************************************)
baseCompiledExpr_deleteExpr(e) ==
  init(Node("constantExpr", "", "", valueTrue, FALSE, <<>>, <<>>, 0), e.offset + 1)

\* deleteExpr deciding without the dynamic scopes on the way: an unbound
\* name is always deleted from the global object
compiledIdentifierExpr_deleteExpr_noDynamics(e, st) ==
  IF CurStrict(st)
  THEN [st |-> throwSyntaxError(st, "Delete of an unqualified identifier in strict mode"), e |-> Nil]
  ELSE [st |-> st,
        e |-> IF lookupName(st.scope, e.name).b = 0
              THEN init(Node("deleteGlobalExpr", "", e.name, NoVal, FALSE, <<>>, <<>>, 0), 0)
              ELSE init(Node("compiledLiteral", "", "", valueFalse, FALSE, <<>>, <<>>, 0), e.offset + 1)]

compiledIdentifierExpr_deleteExpr(e, st) ==
  IF CurStrict(st)
  THEN [st |-> throwSyntaxError(st, "Delete of an unqualified identifier in strict mode"), e |-> Nil]
  ELSE
    Let(lookupName(st.scope, e.name), LAMBDA r :
    Let(init(Node("compiledLiteral", "", "", valueFalse, FALSE, <<>>, <<>>, 0), e.offset + 1), LAMBDA lit :
    [st |-> st,
        e |-> IF r.noDynamics
              THEN IF r.b = 0
                   THEN init(Node("deleteGlobalExpr", "", e.name, NoVal, FALSE, <<>>, <<>>, 0), 0)
                   ELSE lit
              ELSE IF r.b = 0
                   THEN init(Node("deleteVarExpr", "", e.name, NoVal, FALSE, <<>>, <<>>, 0), e.offset + 1)
                   ELSE lit]))

compiledDotExpr_deleteExpr(e) ==
  init(Node("deletePropExpr", "", e.name, NoVal, FALSE, <<>>, <<Left(e)>>, 0), 0)

compiledBracketExpr_deleteExpr(e) ==
  init(Node("deleteElemExpr", "", "", NoVal, FALSE, <<>>, <<Left(e), Member(e)>>, 0), 0)

\* compiledNewExpr embeds compiledCallExpr: the receiver of the promoted
\* method is the embedded call expression
compiledCallExpr_deleteExpr(e) ==
  init(Node("defaultDeleteExpr", "", "", NoVal, FALSE, <<>>,
            <<[e EXCEPT !.kind = "compiledCallExpr"]>>, 0), e.offset + 1)

deleteExpr(e, st) ==
  CASE e.kind = "compiledIdentifierExpr" -> compiledIdentifierExpr_deleteExpr(e, st)
    [] e.kind = "compiledDotExpr" -> [st |-> st, e |-> compiledDotExpr_deleteExpr(e)]
    [] e.kind = "compiledBracketExpr" -> [st |-> st, e |-> compiledBracketExpr_deleteExpr(e)]
    [] e.kind \in {"compiledCallExpr", "compiledNewExpr"} -> [st |-> st, e |-> compiledCallExpr_deleteExpr(e)]
    [] OTHER -> [st |-> st, e |-> baseCompiledExpr_deleteExpr(e)]

deleteElemExpr_emitGetter(e, put, st) ==
  Let(addSrcMap(e, emitGetter(Member(e), TRUE, emitGetter(Left(e), TRUE, st))), LAMBDA s1 :
  Let(emit(s1, I0(StrictOp(s1, "deleteElem", "deleteElemStrict"))), LAMBDA s2 :
  IF ~put THEN emit(s2, pop) ELSE s2))

deletePropExpr_emitGetter(e, put, st) ==
  Let(addSrcMap(e, emitGetter(Left(e), TRUE, st)), LAMBDA s1 :
  Let(emit(s1, Is(StrictOp(s1, "deleteProp", "deletePropStrict"), e.name)), LAMBDA s2 :
  IF ~put THEN emit(s2, pop) ELSE s2))

deleteVarExpr_emitGetter(e, put, st) ==
  Let(emit(st, Is("deleteVar", e.name)), LAMBDA s1 :
  IF ~put THEN emit(s1, pop) ELSE s1)

deleteGlobalExpr_emitGetter(e, put, st) ==
  Let(emit(st, Is("deleteGlobal", e.name)), LAMBDA s1 :
  IF ~put THEN emit(s1, pop) ELSE s1)

defaultDeleteExpr_emitGetter(e, put, st) ==
  Let(emitGetter(e.kids[1], FALSE, st), LAMBDA s1 :
  IF put THEN emit(s1, loadVal(valueTrue)) ELSE s1)


RECURSIVE emitAll(_, _, _, _)
\* kids[i..], each with emitGetter(put)
emitAll(kids, i, put, st) ==
  IF i > Len(kids) THEN st ELSE emitAll(kids, i + 1, put, emitGetter(kids[i], put, st))

AssignInstr(tok) ==
  CASE tok = "PLUS" -> "add" [] tok = "MINUS" -> "sub" [] tok = "MULTIPLY" -> "mul"
    [] tok = "SLASH" -> "div" [] tok = "REMAINDER" -> "mod" [] tok = "OR" -> "or"
    [] tok = "AND" -> "and" [] tok = "EXCLUSIVE_OR" -> "xor" [] tok = "SHIFT_LEFT" -> "sal"
    [] tok = "SHIFT_RIGHT" -> "sar" [] tok = "UNSIGNED_SHIFT_RIGHT" -> "shr" [] OTHER -> ""

compiledAssignExpr_emitGetter(e, put, st) ==
  Let(addSrcMap(e, st), LAMBDA s0 :
  IF e.tok = "ASSIGN" THEN emitSetter(Left(e), Member(e), put, s0)
  ELSE IF AssignInstr(e.tok) # ""
  THEN emitUnary(Left(e), NoPrepare, BodyAssign(AssignInstr(e.tok), Member(e)), FALSE, put, s0)
  ELSE panic(s0, "Unknown assign operator"))

RECURSIVE emitTemplateParts_stringsOnly(_, _, _, _)
emitTemplateParts_stringsOnly(e, i, cnt, st) ==
  IF i >= Len(e.strs) - 1 THEN [st |-> st, cnt |-> cnt]
  ELSE Let(IF e.strs[i + 1] # "" THEN emit(st, loadVal(newStringValue(e.strs[i + 1]))) ELSE st, LAMBDA s1 :
       Let(IF e.strs[i + 1] # "" THEN cnt + 1 ELSE cnt, LAMBDA c1 :
       Let(emit(emitGetter(e.kids[i + 1], TRUE, s1), I0("_toString")), LAMBDA s2 :
       emitTemplateParts_stringsOnly(e, i + 1, c1, s2))))

RECURSIVE emitTemplateParts(_, _, _, _)
\* the loop over the middle elements: returns the state and the string count
emitTemplateParts(e, i, cnt, st) ==
  IF i >= Len(e.strs) - 1 THEN [st |-> st, cnt |-> cnt]
  ELSE Let(IF e.strs[i + 1] # "" THEN emit(st, loadVal(newStringValue(e.strs[i + 1]))) ELSE st, LAMBDA s1 :
       Let(IF e.strs[i + 1] # "" THEN cnt + 1 ELSE cnt, LAMBDA c1 :
       Let(emit(emitGetter(e.kids[i + 1], TRUE, s1), I0("_toString")), LAMBDA s2 :
       emitTemplateParts(e, i + 1, c1 + 1, s2))))

compiledTemplateLiteral_emitGetter(e, put, st) ==
  Let(Len(e.strs), LAMBDA n :
  Let(
        IF ~e.flag
        THEN IF n = 0 THEN emit(st, loadVal(newStringValue("")))
             ELSE IF n = 1 THEN emit(st, loadVal(newStringValue(e.strs[n])))
             ELSE Let(IF e.strs[1] # "" THEN emit(st, loadVal(newStringValue(e.strs[1]))) ELSE st, LAMBDA s1 :
                  Let(IF e.strs[1] # "" THEN 1 ELSE 0, LAMBDA c1 :
                  Let(emit(emitGetter(e.kids[1], TRUE, s1), I0("_toString")), LAMBDA s2 :
                  Let(emitTemplateParts(e, 1, c1 + 1, s2), LAMBDA r :
                  Let(IF e.strs[n] # "" THEN emit(r.st, loadVal(newStringValue(e.strs[n]))) ELSE r.st, LAMBDA s3 :
                  Let(IF e.strs[n] # "" THEN r.cnt + 1 ELSE r.cnt, LAMBDA c3 :
                  emit(s3, In("concatStrings", c3))))))))
        ELSE Let(emit(emitCallee(e.kids[1], st).st, In("getTaggedTmplObject", n)), LAMBDA s1 :
             Let(emitAll(e.kids, 2, TRUE, s1), LAMBDA s2 :
             emit(s2, In("call", (Len(e.kids) - 1) + 1)))), LAMBDA s9 :
  IF ~put THEN emit(s9, pop) ELSE s9))

RECURSIVE thisScope(_, _)
RECURSIVE thisScope_functionOnly(_, _)
thisScope_functionOnly(chain, i) ==
  IF i = 0 THEN 0
  ELSE IF chain[i].arrow \/ ~chain[i].function THEN thisScope_functionOnly(chain, i - 1)
  ELSE i

\* the loop of compiledThisExpr.emitGetter: the index of the scope that
\* provides `this`, 0 when the chain is exhausted
thisScope(chain, i) ==
  IF i = 0 THEN 0
  ELSE IF chain[i].arrow \/ (~chain[i].function /\ ~chain[i].eval) THEN thisScope(chain, i - 1)
  ELSE i

compiledThisExpr_emitGetter(e, put, st) ==
  IF put
  THEN Let(addSrcMap(e, st), LAMBDA s0 :
       Let(thisScope(s0.scope, Len(s0.scope)), LAMBDA k :
       IF s0.err # "" THEN s0
          ELSE IF k # 0 THEN emit([s0 EXCEPT !.scope[k].thisNeeded = TRUE], In("loadStack", 0))
          ELSE emit(s0, I0("loadGlobalObject"))))
  ELSE st

compiledNewExpr_emitGetter(e, put, st) ==
  Let(IF e.flag THEN emit(st, I0("startVariadic")) ELSE st, LAMBDA s1 :
  Let(emitAll(e.kids, 2, TRUE, emitGetter(e.kids[1], TRUE, s1)), LAMBDA s2 :
  Let(addSrcMap(e, s2), LAMBDA s3 :
  Let(IF e.flag THEN emit2(s3, I0("newVariadic"), I0("endVariadic"))
            ELSE emit(s3, In("_new", Len(e.kids) - 1)), LAMBDA s4 :
  IF ~put THEN emit(s4, pop) ELSE s4))))

compiledNewTarget_emitGetter(e, put, st) ==
  IF put THEN emit(addSrcMap(e, st), I0("loadNewTarget")) ELSE st

\* compiler.compileMetaProperty
compileMetaProperty(v, st) ==
  IF v.tok = "new" \/ v.name # "target"
  THEN [st |-> st, e |-> init(Leaf("compiledNewTarget", "", NoVal, FALSE), v.offset + 1)]
  ELSE [st |-> throwSyntaxError(st, "Unsupported meta property: " \o v.tok \o "." \o v.name), e |-> Nil]

compiledSequenceExpr_emitGetter(e, put, st) ==
  IF Len(e.kids) > 0
  THEN emitGetter(e.kids[Len(e.kids)], put, emitAll(SubSeq(e.kids, 1, Len(e.kids) - 1), 1, FALSE, st))
  ELSE st

\* emitConst that throws only where the value is used
emitConst_whenUsed(expr, put, st) ==
  Let(evalConst(expr, st), LAMBDA r :
  IF ~put THEN r.st
     ELSE IF r.ex = NoEx THEN emit(r.st, loadVal(r.v))
     ELSE emitThrow(r.st, r.ex))

\* compiler.emitConst
emitConst(expr, put, st) ==
  Let(evalConst(expr, st), LAMBDA r :
  IF r.ex = NoEx
     THEN IF put THEN emit(r.st, loadVal(r.v)) ELSE r.st
     ELSE emitThrow(r.st, r.ex))

compiler_emitExpr(expr, put, st) ==
  Let(constant(expr, st), LAMBDA c :
  IF c.st.err # "" THEN c.st
     ELSE IF c.b THEN emitConst(expr, put, c.st)
     ELSE emitGetter(expr, put, c.st))

compiler_evalConst_keepsCode(expr, st) ==
  IF st.err # "" THEN [st |-> st, v |-> NoVal, ex |-> NoEx]
  ELSE IF expr.kind = "compiledLiteral" THEN [st |-> st, v |-> expr.val, ex |-> NoEx]
  ELSE
    Let(~st.evalOn, LAMBDA createdPrg :
    Let(IF createdPrg THEN [st EXCEPT !.evalOn = TRUE, !.ecode = <<>>, !.esrcMap = <<>>] ELSE st, LAMBDA s0 :
    Let(Len(s0.ecode), LAMBDA savedPc :
    Let(emit(emitGetter(expr, TRUE, s0), halt), LAMBDA s1 :
    IF s1.err # "" THEN [st |-> s1, v |-> NoVal, ex |-> NoEx]
       ELSE
         Let(runTry(s1.ecode, savedPc, <<>>), LAMBDA run :
         Let(IF createdPrg
                   THEN [s1 EXCEPT !.evalOn = FALSE, !.ecode = <<>>, !.esrcMap = <<>>,
                                   !.prgs = Append(@, Program("evalVM", s1.ecode, s1.esrcMap, <<>>))]
                   ELSE s1, LAMBDA s2 :
         IF run.ex = NoEx THEN [st |-> s2, v |-> Top(run.stk), ex |-> NoEx]
            ELSE [st |-> s2, v |-> NoVal, ex |-> run.ex]))))))

\* compiler.evalConst: the value or the exception, and the compiler state
compiler_evalConst(expr, st) ==
  IF st.err # "" THEN [st |-> st, v |-> NoVal, ex |-> NoEx]
  ELSE IF expr.kind = "compiledLiteral" THEN [st |-> st, v |-> expr.val, ex |-> NoEx]
  ELSE
    Let(~st.evalOn, LAMBDA createdPrg :
    Let(IF createdPrg THEN [st EXCEPT !.evalOn = TRUE, !.ecode = <<>>, !.esrcMap = <<>>] ELSE st, LAMBDA s0 :
    Let(Len(s0.ecode), LAMBDA savedPc :
    Let(emit(emitGetter(expr, TRUE, s0), halt), LAMBDA s1 :
    IF s1.err # "" THEN [st |-> s1, v |-> NoVal, ex |-> NoEx]
       ELSE
         Let(runTry(s1.ecode, savedPc, <<>>), LAMBDA run :
         Let(IF createdPrg
                   THEN [s1 EXCEPT !.evalOn = FALSE, !.ecode = <<>>, !.esrcMap = <<>>,
                                   !.prgs = Append(@, Program("evalVM", s1.ecode, s1.esrcMap, <<>>))]
                   ELSE [s1 EXCEPT !.ecode = SubSeq(@, 1, savedPc)], LAMBDA s2 :
         IF run.ex = NoEx THEN [st |-> s2, v |-> Top(run.stk), ex |-> NoEx]
            ELSE [st |-> s2, v |-> NoVal, ex |-> run.ex]))))))


Operand(e) == e.kids[1]
PopUnless(put, st) == IF ~put THEN emit(st, pop) ELSE st

compiledUnaryExpr_constant(e, st) == constant(Operand(e), st)

compiledUnaryExpr_emitGetter(e, put, st) ==
  CASE e.tok = "NOT" -> PopUnless(put, emit(emitGetter(Operand(e), TRUE, st), I0("not")))
    [] e.tok = "BITWISE_NOT" -> PopUnless(put, emit(emitGetter(Operand(e), TRUE, st), I0("bnot")))
    [] e.tok = "TYPEOF" ->
         Let(IF Operand(e).kind = "compiledIdentifierExpr"
                   THEN compiledIdentifierExpr_emitGetterOrRef(Operand(e), st)
                   ELSE emitGetter(Operand(e), TRUE, st), LAMBDA s1 :
         PopUnless(put, emit(s1, I0("typeof"))))
    [] e.tok = "DELETE" ->
         Let(deleteExpr(Operand(e), st), LAMBDA d :
         IF d.st.err # "" THEN d.st ELSE emitGetter(d.e, put, d.st))
    [] e.tok = "MINUS" -> PopUnless(put, emit(emitExpr(Operand(e), TRUE, st), I0("neg")))
    [] e.tok = "PLUS" -> PopUnless(put, emit(emitExpr(Operand(e), TRUE, st), I0("plus")))
    [] e.tok = "INCREMENT" -> emitUnary(Operand(e), "toNumber", BodyInstr("inc"), e.flag, put, st)
    [] e.tok = "DECREMENT" -> emitUnary(Operand(e), "toNumber", BodyInstr("dec"), e.flag, put, st)
    [] e.tok = "VOID" ->
         Let(emitExpr(Operand(e), FALSE, st), LAMBDA s1 :
         IF put THEN emit(s1, loadUndef) ELSE s1)
    [] OTHER -> panic(st, "Unknown unary operator")

\* the jump over the alternate left as it was emitted
compiledConditionalExpr_emitGetter_unpatched(e, put, st) ==
  Let(emitGetter(e.kids[1], TRUE, st), LAMBDA s1 :
  Let(Len(CurCode(s1)), LAMBDA j :
  Let(emitGetter(e.kids[2], put, emit(s1, nilInstr)), LAMBDA s2 :
  Let(emit(s2, nilInstr), LAMBDA s3 :
  Let(patch(s3, j, In("jne", Len(CurCode(s3)) - j)), LAMBDA s4 :
  emitGetter(e.kids[3], put, s4))))))

compiledConditionalExpr_emitGetter(e, put, st) ==
  Let(emitGetter(e.kids[1], TRUE, st), LAMBDA s1 :
  Let(Len(CurCode(s1)), LAMBDA j :
  Let(emitGetter(e.kids[2], put, emit(s1, nilInstr)), LAMBDA s2 :
  Let(Len(CurCode(s2)), LAMBDA j1 :
  Let(emit(s2, nilInstr), LAMBDA s3 :
  Let(patch(s3, j, In("jne", Len(CurCode(s3)) - j)), LAMBDA s4 :
  Let(emitGetter(e.kids[3], put, s4), LAMBDA s5 :
  patch(s5, j1, In("jump", Len(CurCode(s5)) - j1)))))))))

\* constant() looking at the left operand only
compiledLogicalOr_constant_leftOnly(e, st) == constant(Left(e), st)

compiledLogicalOr_constant(e, st) ==
  Let(constant(Left(e), st), LAMBDA l :
  IF l.st.err # "" \/ ~l.b THEN [st |-> l.st, b |-> FALSE]
  ELSE Let(evalConst(Left(e), l.st), LAMBDA r :
       IF r.ex = NoEx
          THEN IF ToBoolean(r.v) THEN [st |-> r.st, b |-> TRUE] ELSE constant(Member(e), r.st)
          ELSE [st |-> r.st, b |-> TRUE]))

compiledLogicalOr_emitGetter(e, put, st) ==
  Let(constant(Left(e), st), LAMBDA l :
  IF l.st.err # "" THEN l.st
  ELSE IF l.b
  THEN Let(evalConst(Left(e), l.st), LAMBDA r :
       IF r.ex = NoEx
          THEN IF ~ToBoolean(r.v) THEN emitExpr(Member(e), put, r.st)
               ELSE IF put THEN emit(r.st, loadVal(r.v)) ELSE r.st
          ELSE emitThrow(r.st, r.ex))
  ELSE Let(emitExpr(Left(e), TRUE, l.st), LAMBDA s1 :
       Let(Len(CurCode(s1)), LAMBDA j :
       Let(emit2(addSrcMap(e, s1), nilInstr, pop), LAMBDA s2 :
       Let(emitExpr(Member(e), TRUE, s2), LAMBDA s3 :
       Let(patch(s3, j, In("jeq1", Len(CurCode(s3)) - j)), LAMBDA s4 :
       PopUnless(put, s4)))))))

compiledLogicalAnd_constant(e, st) ==
  Let(constant(Left(e), st), LAMBDA l :
  IF l.st.err # "" \/ ~l.b THEN [st |-> l.st, b |-> FALSE]
  ELSE Let(evalConst(Left(e), l.st), LAMBDA r :
       IF r.ex = NoEx
          THEN IF ~ToBoolean(r.v) THEN [st |-> r.st, b |-> TRUE] ELSE constant(Member(e), r.st)
          ELSE [st |-> r.st, b |-> TRUE]))

\* && that always tests the left operand at run time
compiledLogicalAnd_emitGetter_jumping(e, put, st) ==
  Let(emitGetter(Left(e), TRUE, st), LAMBDA s1 :
  Let(Len(CurCode(s1)), LAMBDA j :
  Let(emit2(addSrcMap(e, s1), nilInstr, pop), LAMBDA s2 :
  Let(emitExpr(Member(e), TRUE, s2), LAMBDA s3 :
  Let(patch(s3, j, In("jneq1", Len(CurCode(s3)) - j)), LAMBDA s4 :
  PopUnless(put, s4))))))

compiledLogicalAnd_emitGetter(e, put, st) ==
  Let(constant(Left(e), st), LAMBDA l :
  IF l.st.err # "" THEN l.st
  ELSE IF l.b
  THEN Let(evalConst(Left(e), l.st), LAMBDA r :
       IF r.ex = NoEx
          THEN IF ~ToBoolean(r.v) THEN emit(r.st, loadVal(r.v))
               ELSE emitExpr(Member(e), put, r.st)
          ELSE emitThrow(r.st, r.ex))
  ELSE Let(emitGetter(Left(e), TRUE, l.st), LAMBDA s1 :
       Let(Len(CurCode(s1)), LAMBDA j :
       Let(emit2(addSrcMap(e, s1), nilInstr, pop), LAMBDA s2 :
       Let(emitExpr(Member(e), TRUE, s2), LAMBDA s3 :
       Let(patch(s3, j, In("jneq1", Len(CurCode(s3)) - j)), LAMBDA s4 :
       PopUnless(put, s4)))))))

compiledBinaryExpr_constant(e, st) ==
  Let(constant(Left(e), st), LAMBDA l :
  IF l.st.err # "" \/ ~l.b THEN [st |-> l.st, b |-> FALSE] ELSE constant(Member(e), l.st))

BinaryInstr(tok) ==
  CASE tok = "LESS" -> "op_lt" [] tok = "GREATER" -> "op_gt" [] tok = "LESS_OR_EQUAL" -> "op_lte"
    [] tok = "GREATER_OR_EQUAL" -> "op_gte" [] tok = "EQUAL" -> "op_eq" [] tok = "NOT_EQUAL" -> "op_neq"
    [] tok = "STRICT_EQUAL" -> "op_strict_eq" [] tok = "STRICT_NOT_EQUAL" -> "op_strict_neq"
    [] tok = "PLUS" -> "add" [] tok = "MINUS" -> "sub" [] tok = "MULTIPLY" -> "mul"
    [] tok = "SLASH" -> "div" [] tok = "REMAINDER" -> "mod" [] tok = "AND" -> "and"
    [] tok = "OR" -> "or" [] tok = "EXCLUSIVE_OR" -> "xor" [] tok = "INSTANCEOF" -> "op_instanceof"
    [] tok = "IN" -> "op_in" [] tok = "SHIFT_LEFT" -> "sal" [] tok = "SHIFT_RIGHT" -> "sar"
    [] tok = "UNSIGNED_SHIFT_RIGHT" -> "shr" [] OTHER -> ""

compiledBinaryExpr_emitGetter(e, put, st) ==
  Let(addSrcMap(e, emitExpr(Member(e), TRUE, emitExpr(Left(e), TRUE, st))), LAMBDA s1 :
  IF BinaryInstr(e.tok) = "" THEN panic(s1, "Unknown operator")
     ELSE PopUnless(put, emit(s1, I0(BinaryInstr(e.tok)))))

compiledRegexpLiteral_emitGetter(e, put, st) ==
  IF put
  THEN Let(IF ~e.flag THEN throwSyntaxError(st, "Invalid regular expression") ELSE st, LAMBDA s1 :
       emit(s1, Is("newRegexp", e.name)))
  ELSE st

compiledSpreadCallArgument_emitGetter(e, put, st) ==
  Let(emitGetter(e.kids[1], put, st), LAMBDA s1 :
  IF put THEN emit(s1, I0("pushSpread")) ELSE s1)

\* compiler.emitCallee: the state and the callee's name when it is an identifier
compiler_emitCallee(callee, st) ==
  CASE callee.kind = "compiledDotExpr" ->
         [st |-> emit2(emitGetter(Left(callee), TRUE, st), dup, Is("getPropCallee", callee.name)),
          calleeName |-> ""]
    [] callee.kind = "compiledBracketExpr" ->
         [st |-> emit(emitGetter(Member(callee), TRUE, emit(emitGetter(Left(callee), TRUE, st), dup)),
                      I0("getElemCallee")),
          calleeName |-> ""]
    [] callee.kind = "compiledIdentifierExpr" ->
         [st |-> compiledIdentifierExpr_emitGetterAndCallee(callee, st), calleeName |-> callee.name]
    [] OTHER -> [st |-> emitGetter(callee, TRUE, emit(st, loadUndef)), calleeName |-> ""]


RECURSIVE markEval(_, _, _, _)
RECURSIVE markEval_arrowIsFunc(_, _, _, _)
\* the walk taking an arrow function for the function whose this and
\* arguments the eval code sees
markEval_arrowIsFunc(chain, i, foundFunc, foundVar) ==
  IF i = 0 THEN chain
  ELSE
    Let(chain[i], LAMBDA sc :
    Let(~foundFunc /\ sc.function, LAMBDA isFunc :
    Let(~foundVar /\ (sc.variable \/ sc.function), LAMBDA isVar :
    Let([sc EXCEPT !.thisNeeded = IF isFunc THEN TRUE ELSE @,
                          !.argsNeeded = IF isFunc THEN TRUE ELSE @,
                          !.dynamic = IF isVar /\ ~sc.strict THEN TRUE ELSE @,
                          !.dynLookup = TRUE], LAMBDA sc1 :
    markEval_arrowIsFunc([chain EXCEPT ![i] = sc1], i - 1, foundFunc \/ isFunc, foundVar \/ isVar)))))

\* the walk over the outer chain of a direct eval call
markEval(chain, i, foundFunc, foundVar) ==
  IF i = 0 THEN chain
  ELSE
    Let(chain[i], LAMBDA sc :
    Let(~foundFunc /\ sc.function /\ ~sc.arrow, LAMBDA isFunc :
    Let(~foundVar /\ (sc.variable \/ sc.function), LAMBDA isVar :
    Let([sc EXCEPT !.thisNeeded = IF isFunc THEN TRUE ELSE @,
                          !.argsNeeded = IF isFunc THEN TRUE ELSE @,
                          !.dynamic = IF isVar /\ ~sc.strict THEN TRUE ELSE @,
                          !.dynLookup = TRUE], LAMBDA sc1 :
    markEval([chain EXCEPT ![i] = sc1], i - 1, foundFunc \/ isFunc, foundVar \/ isVar)))))

compiledCallExpr_emitGetter(e, put, st) ==
  Let(IF e.flag THEN emit(st, I0("startVariadic")) ELSE st, LAMBDA s1 :
  Let(emitCallee(e.kids[1], s1), LAMBDA c :
  Let(addSrcMap(e, emitAll(e.kids, 2, TRUE, c.st)), LAMBDA s2 :
  Let(Len(e.kids) - 1, LAMBDA nargs :
  Let(IF s2.err # "" THEN s2
            ELSE IF c.calleeName = "eval"
            THEN Let([s2 EXCEPT !.scope = markEval(@, Len(@), FALSE, FALSE)], LAMBDA s21 :
                 IF CurStrict(s21)
                    THEN IF e.flag THEN emit(s21, I0("callEvalVariadicStrict"))
                         ELSE emit(s21, In("callEvalStrict", nargs))
                    ELSE IF e.flag THEN emit(s21, I0("callEvalVariadic"))
                         ELSE emit(s21, In("callEval", nargs)))
            ELSE IF e.flag THEN emit(s2, I0("callVariadic")) ELSE emit(s2, In("call", nargs)), LAMBDA s3 :
  Let(IF e.flag THEN emit(s3, I0("endVariadic")) ELSE s3, LAMBDA s4 :
  PopUnless(put, s4)))))))

\* the loop over the elements of an array literal
RECURSIVE emitItems(_, _, _)
emitItems(e, i, s) ==
  IF i > Len(e.kids) THEN s
  ELSE Let(e.kids[i], LAMBDA v :
       IF v.kind = "SpreadElement"
       THEN Let(compileExpression(v.kids[1], s), LAMBDA c :
            emitItems(e, i + 1, emit(emitGetter(c.e, TRUE, c.st), I0("pushArraySpread"))))
       ELSE IF v # Nil
       THEN Let(compileExpression(v, s), LAMBDA c :
            emitItems(e, i + 1, emit(emitGetter(c.e, TRUE, c.st), I0("pushArrayItem"))))
       ELSE emitItems(e, i + 1, emit2(s, I0("loadNil"), I0("pushArrayItem"))))

compiledArrayLiteral_emitGetter(e, put, st) ==
  Let(addSrcMap(e, st), LAMBDA s0 :
  Let(Len(CurCode(s0)), LAMBDA mark :
  Let(emitItems(e, 1, emit(s0, nilInstr)), LAMBDA s1 :
  Let(\E i \in 1..Len(e.kids) : e.kids[i].kind = "SpreadElement", LAMBDA hasSpread :
  Let(IF ~hasSpread THEN Len(e.kids) ELSE 0, LAMBDA objCount :
  PopUnless(put, patch(s1, mark, In("newArray", objCount))))))))

(***************************************************************************)
(* Function literals: the parameter loop of compiledFunctionLiteral        *)
(* .emitGetter.  A compiled function literal keeps its ParameterList as    *)
(* kids[1]; tok is "arrow" for an arrow function, flag is e.strict # nil   *)
(* (the body begins with "use strict"), strs holds "method" once an object *)
(* literal has set isMethod.                                               *)
(***************************************************************************)
DuplicateParameter == "Duplicate parameter name not allowed in this context"
IllegalUseStrict == "Illegal 'use strict' directive in function with non-simple parameter list"

isArrow(e) == e.tok = "arrow"
isMethod(e) == e.strs = <<"method">>
ParameterList(e) == e.kids[1]
\* parameterList.List and parameterList.Rest
List(pl) == IF pl.flag THEN SubSeq(pl.kids, 1, Len(pl.kids) - 1) ELSE pl.kids
Rest(pl) == IF pl.flag THEN pl.kids[Len(pl.kids)] ELSE Nil

\* compiler.newScope / popScope: the new scope inherits strict from the outer
newScope(st) == [st EXCEPT !.scope = Append(@, NewScope(CurStrict(st), FALSE, FALSE, FALSE, {}))]
popScope(st) == [st EXCEPT !.scope = SubSeq(@, 1, Len(@) - 1)]

\* scope.bindNameShadow: binds name in the current scope; unique iff it was
\* not bound there before
addBinding(st) ==
  IF st.err # "" THEN st
  ELSE [st EXCEPT !.scope[Len(st.scope)].bindings = Append(@, NewBinding(""))]

bindNameShadow(st, name) ==
  [st |-> [st EXCEPT !.scope[Len(st.scope)].names = @ \cup {name},
                     !.scope[Len(st.scope)].bindings = Append(@, NewBinding(name))],
   unique |-> name \notin st.scope[Len(st.scope)].names]

compileParameterBindingIdentifier(st, name, offset) ==
  Let(IF CurStrict(st) THEN checkIdentifierLName(checkIdentifierName(st, name), name) ELSE st, LAMBDA s1 :
  IF s1.err # "" THEN [st |-> s1, unique |-> TRUE] ELSE bindNameShadow(s1, name))

\* the binding callback accepting a name bound before
compileParameterPatternIdBinding_shadowing(st, name, offset) ==
  compileParameterBindingIdentifier(st, name, offset).st

compileParameterPatternIdBinding(st, name, offset) ==
  Let(compileParameterBindingIdentifier(st, name, offset), LAMBDA r :
  IF ~r.unique THEN throwSyntaxErrorAt(r.st, offset, DuplicateParameter) ELSE r.st)

\* createBindings(item, compileParameterPatternIdBinding): the callback on
\* every identifier the target binds, in source order
RECURSIVE compileParameterPatternBinding(_, _, _)
compileParameterPatternBinding(item, i, st) ==
  IF st.err # "" THEN st
  ELSE IF item.kind = "Identifier"
  THEN compileParameterPatternIdBinding(st, item.name, item.offset)
  ELSE IF item.kind = "AssignExpression"
  THEN compileParameterPatternBinding(item.kids[1], 1, st)
  ELSE IF i > Len(item.kids) THEN st
  ELSE compileParameterPatternBinding(item, i + 1,
         compileParameterPatternBinding(item.kids[i], 1, st))

\* length counted up to the first pattern or initializer
length_simpleOnly(acc) == IF ~acc.hasInits /\ ~acc.hasPatterns THEN acc.length + 1 ELSE acc.length

\* if !hasInits { length++ }
length(acc) == IF ~acc.hasInits THEN acc.length + 1 ELSE acc.length

\* the loop over parameterList.List
RECURSIVE parameterLoop(_, _, _, _)
parameterLoop(e, list, i, acc) ==
  IF i > Len(list) \/ acc.st.err # "" THEN acc
  ELSE
    Let(list[i], LAMBDA item :
    Let(item.kids[1], LAMBDA tgt :
    Let(CASE tgt.kind = "Identifier" ->
                     Let(compileParameterBindingIdentifier(acc.st, tgt.name, tgt.offset), LAMBDA r :
                     [acc EXCEPT !.st = r.st,
                                    !.firstDupIdx = IF ~r.unique THEN tgt.offset ELSE @])
                [] tgt.kind \in {"ObjectPattern", "ArrayPattern"} ->
                     [acc EXCEPT !.st = addBinding(acc.st), !.hasPatterns = TRUE]
                [] OTHER ->
                     [acc EXCEPT !.st = throwSyntaxErrorAt(acc.st, item.offset, "Unsupported BindingElement type")], LAMBDA a1 :
    Let([a1 EXCEPT !.hasInits = @ \/ item.flag], LAMBDA a2 :
    IF a2.st.err # "" THEN a2
       ELSE IF a2.firstDupIdx >= 0 /\ (a2.hasPatterns \/ a2.hasInits \/ CurStrict(a2.st)
                                        \/ isArrow(e) \/ isMethod(e))
       THEN [a2 EXCEPT !.st = throwSyntaxErrorAt(a2.st, a2.firstDupIdx, DuplicateParameter)]
       ELSE IF (a2.hasPatterns \/ a2.hasInits) /\ e.flag
       THEN [a2 EXCEPT !.st = throwSyntaxErrorAt(a2.st, e.offset, IllegalUseStrict)]
       ELSE parameterLoop(e, list, i + 1, [a2 EXCEPT !.length = length(a2)])))))

\* create pattern bindings
RECURSIVE patternBindings(_, _, _)
patternBindings(list, i, st) ==
  IF i > Len(list) \/ st.err # "" THEN st
  ELSE patternBindings(list, i + 1,
         IF list[i].kids[1].kind = "Identifier" THEN st
         ELSE compileParameterPatternBinding(list[i].kids[1], 1, st))

\* the statements of the body and the initializer of a parameter
Body(e) == IF Len(e.kids) >= 2 THEN e.kids[2].kids ELSE <<>>
Initializer(item) == IF item.flag THEN item.kids[2] ELSE Nil
\* the name given to an anonymous function by its position
lhsName(e) == e.val.s
funcName(e) == IF e.name # "" THEN e.name ELSE lhsName(e)

\* compiler.compileStatement on the statements of the model: an expression
\* statement and `return expression`
compileStatement(stmt, st) ==
  Let(compileExpression(stmt.kids[1], st), LAMBDA c :
  IF stmt.kind = "ReturnStatement"
     THEN emit(emitExpr(c.e, TRUE, c.st), I0("ret"))
     ELSE emitExpr(c.e, FALSE, c.st))

RECURSIVE compileStatements(_, _, _)
compileStatements(body, i, st) ==
  IF i > Len(body) THEN st ELSE compileStatements(body, i + 1, compileStatement(body[i], st))

\* scope.bindNameLexical in the k-th scope: the binding and whether it was
\* created by this call
bindNameLexical(st, k, name) ==
  IF name \in st.scope[k].names
     THEN [st |-> st, b |-> boundIndex(st.scope[k], name), created |-> FALSE]
     ELSE [st |-> [st EXCEPT !.scope[k].names = @ \cup {name},
                             !.scope[k].bindings = Append(@, NewBinding(name))],
           b |-> Len(st.scope[k].bindings) + 1, created |-> TRUE]

\* scope.deleteBinding
deleteBinding(st, k, b) ==
  [st EXCEPT !.scope[k].names = @ \ {st.scope[k].bindings[b].name},
             !.scope[k].bindings = SubSeq(@, 1, b - 1) \o SubSeq(@, b + 1, Len(@))]

\* scope.moveArgsToStash
moveArgsToStash(st, k) ==
  [st EXCEPT !.scope[k].argsInStash = TRUE,
             !.scope[k].needStash = TRUE,
             !.scope[k].bindings = [i \in 1..Len(@) |->
                                      IF i <= st.scope[k].numArgs THEN [@[i] EXCEPT !.inStash = TRUE]
                                         ELSE @[i]]]

\* scope.finaliseVarAlloc: the number of bindings that live in the stash
stashSize(sc) == Cardinality({i \in 1..Len(sc.bindings) : sc.bindings[i].inStash})

\* binding.emitGet / emitInit on the i-th binding of the k-th scope
bindingEmitAt(st, what, k, i) ==
  markAccessPoint(emit(st, Is(what, st.scope[k].bindings[i].name)), k, i)

\* compiler.emitPatternLexicalAssign(target, init, false) once init is
\* emitted: the name is initialised in the current scope
emitPatternLexicalAssign(name, st) ==
  IF st.err # "" THEN st
  ELSE bindingEmitAt(st, "b.emitInit", Len(st.scope), boundIndex(st.scope[Len(st.scope)], name))

\* compiler.compileEmitterExpr(func() { c.emit(<tok>) }, idx)
compileEmitterExpr(tok, idx) ==
  Node("compiledEmitterExpr", tok, "", NoVal, FALSE, <<>>, <<>>, idx)

\* compiler.compilePatternInitExpr(func() { c.emit(<tok>(name)) }, def, idx)
compilePatternInitExpr(tok, name, def, idx, st) ==
  Let(compileExpression(def, st), LAMBDA c :
  [st |-> c.st,
   e |-> Node("compiledPatternInitExpr", tok, name, NoVal, FALSE, <<>>, <<c.e>>, idx)])

\* the two callbacks handed to emitPattern: emitPatternAssign is
\* target.emitSetter(init, false), emitPatternLexicalAssign emits init and
\* initialises the binding of the target
emitAssignSimple(assign, target, ini, st) ==
  IF st.err # "" THEN st
  ELSE IF assign = "emitPatternAssign" THEN emitSetter(target, ini, FALSE, st)
  ELSE emitPatternLexicalAssign(target.name, emitGetter(ini, TRUE, st))

Patterns == {"ObjectPattern", "ArrayPattern"}
\* pattern.Elements and pattern.Rest: the rest target is the last child of a
\* pattern whose flag is set
Elements(pattern) ==
  IF pattern.flag THEN SubSeq(pattern.kids, 1, Len(pattern.kids) - 1) ELSE pattern.kids
PatternRest(pattern) == IF pattern.flag THEN pattern.kids[Len(pattern.kids)] ELSE Nil

RECURSIVE emitPattern(_, _, _, _)
\* compiler.emitAssign
emitAssign(target, ini, assign, st) ==
  IF st.err # "" THEN st
  ELSE IF target.kind \in Patterns
  THEN emitPattern(target, assign, FALSE, emitGetter(ini, TRUE, st))
  ELSE Let(compileExpression(target, st), LAMBDA c :
       emitAssignSimple(assign, c.e, ini, c.st))

\* the loop of emitObjectPattern over PropertyShort properties
RECURSIVE emitPatternProperties(_, _, _, _)
emitPatternProperties(pattern, assign, j, st) ==
  IF j > Len(pattern.kids) \/ st.err # "" THEN st
  ELSE Let(pattern.kids[j], LAMBDA prop :
       Let(compileExpression(prop, emit(st, dup)), LAMBDA t :
       Let(compilePatternInitExpr("getProp", prop.name, Nil, prop.offset, t.st), LAMBDA c :
       emitPatternProperties(pattern, assign, j + 1,
         emitAssignSimple(assign, t.e, c.e, c.st)))))

\* the loop of emitArrayPattern over pattern.Elements
RECURSIVE emitElements(_, _, _, _)
emitElements(pattern, assign, j, st) ==
  IF j > Len(Elements(pattern)) \/ st.err # "" THEN st
  ELSE Let(Elements(pattern)[j], LAMBDA elt :
       emitElements(pattern, assign, j + 1,
         CASE elt.kind = "nil" -> emit2(st, I0("iterGetNextOrUndef"), pop)
           [] elt.kind = "AssignExpression" ->
                Let(compilePatternInitExpr("iterGetNextOrUndef", "", elt.kids[2], elt.offset, st), LAMBDA c :
                emitAssign(elt.kids[1], c.e, assign, c.st))
           [] OTHER ->
                emitAssign(elt, compileEmitterExpr("iterGetNextOrUndef", elt.offset), assign, st)))

\* the iterator closed whether or not the rest element has consumed it
emitArrayPattern_alwaysClose(pattern, assign, put, st) ==
  Let(emitElements(pattern, assign, 1, emit(st, I0("iterate"))), LAMBDA s1 :
  Let(IF PatternRest(pattern) # Nil
         THEN emitAssign(PatternRest(pattern),
                         compileEmitterExpr("newArrayFromIter", PatternRest(pattern).offset),
                         assign, s1)
         ELSE s1, LAMBDA s2 :
  IF s2.err # "" THEN s2 ELSE PopUnless(put, emit(s2, I0("enumPopClose")))))

\* compiler.emitArrayPattern
emitArrayPattern(pattern, assign, put, st) ==
  Let(emitElements(pattern, assign, 1, emit(st, I0("iterate"))), LAMBDA s1 :
  Let(IF PatternRest(pattern) # Nil
         THEN emitAssign(PatternRest(pattern),
                         compileEmitterExpr("newArrayFromIter", PatternRest(pattern).offset),
                         assign, s1)
         ELSE emit(s1, I0("enumPopClose")), LAMBDA s2 :
  IF s2.err # "" THEN s2 ELSE PopUnless(put, s2)))

\* compiler.emitObjectPattern without a rest property
emitObjectPattern(pattern, assign, put, st) ==
  Let(emitPatternProperties(pattern, assign, 1, emit(st, I0("checkObjectCoercible"))), LAMBDA s1 :
  IF s1.err # "" THEN s1 ELSE PopUnless(put, s1))

\* compiler.emitPattern
emitPattern(pattern, assign, put, st) ==
  CASE pattern.kind = "ObjectPattern" -> emitObjectPattern(pattern, assign, put, st)
    [] pattern.kind = "ArrayPattern" -> emitArrayPattern(pattern, assign, put, st)
    [] OTHER -> panic(st, "unsupported Pattern")

\* compiledPatternInitExpr.emitGetter(true) after emitSrc
emitDefault(def, st) ==
  IF def = Nil THEN st
  ELSE Let(Len(CurCode(st)), LAMBDA mark :
       Let(emitGetter(def, TRUE, emit(st, nilInstr)), LAMBDA s1 :
       patch(s1, mark, In("jdef", Len(CurCode(s1)) - mark))))

\* the instruction of the emitSrc / emitter closure of a pattern value
emitSrc(e, st) == emit(st, IF e.name = "" THEN I0(e.tok) ELSE Is(e.tok, e.name))

\* compiledPatternInitExpr.emitGetter
compiledPatternInitExpr_emitGetter(e, put, st) ==
  IF ~put THEN st ELSE emitDefault(e.kids[1], emitSrc(e, st))

\* compiledEmitterExpr.emitGetter
compiledEmitterExpr_emitGetter(e, put, st) == PopUnless(put, emitSrc(e, st))

\* compiledArrayAssignmentPattern.emitGetter
compiledArrayAssignmentPattern_emitGetter(e, put, st) ==
  IF put THEN emit(st, loadUndef) ELSE st

loadStackLex(n) == In("loadStackLex", n)

forwardRef_last(f, i, used) == IF used THEN i ELSE f.firstForwardRef

\* if firstForwardRef == -1 && <used> { firstForwardRef = i }
forwardRef(f, i, used) == IF f.firstForwardRef = -1 /\ used THEN i ELSE f.firstForwardRef

\* one round of the loop over parameterList.List on the complex path, i
\* counted from 0 as in the source; f holds the locals of emitGetter and
\* f.k is the function scope s
emitParameter(item, i, f) ==
  IF item.kids[1].kind # "Identifier"
  THEN Let(compileExpression(Initializer(item), f.st), LAMBDA c :
       Let(IF f.firstForwardRef = -1
                 THEN bindingEmitAt(c.st, "b.emitGet", f.k, i + 1)
                 ELSE emit(c.st, loadStackLex(-i - 1)), LAMBDA s1 :
       [f EXCEPT !.st = emitPattern(item.kids[1], "emitPatternLexicalAssign", FALSE,
                                    emitDefault(c.e, s1))]))
  ELSE IF item.flag
  THEN Let(Len(f.st.code), LAMBDA markGet :
       Let(markGet + 1, LAMBDA mark :
       Let(compileExpression(Initializer(item), emit2(f.st, nilInstr, nilInstr)), LAMBDA c :
       Let(emitGetter(c.e, TRUE, c.st), LAMBDA s2 :
       IF s2.err # "" THEN [f EXCEPT !.st = s2]
       ELSE
       Let(forwardRef(f, i, isDynamic(s2.scope[f.k])
                              \/ s2.scope[f.k].bindings[i + 1].useCount > 0), LAMBDA ffr :
       Let(IF ffr = -1
                 THEN markAccessPoint(patch(s2, markGet, Is("b.emitGet", item.kids[1].name)), f.k, i + 1)
                 ELSE patch(s2, markGet, loadStackLex(-i - 1)), LAMBDA s3 :
       Let(bindingEmitAt(s3, "b.emitInit", f.k, i + 1), LAMBDA s4 :
       [f EXCEPT !.firstForwardRef = ffr,
                 !.st = patch(s4, mark, In("jdefP", Len(s4.code) - mark))])))))))
  ELSE Let(forwardRef(f, i, f.st.scope[f.k].bindings[i + 1].useCount > 0), LAMBDA ffr :
       [f EXCEPT !.firstForwardRef = ffr,
                 !.st = IF ffr # -1
                           THEN bindingEmitAt(emit(f.st, loadStackLex(-i - 1)), "b.emitInit", f.k, i + 1)
                           ELSE f.st])

RECURSIVE emitParameters(_, _, _)
emitParameters(list, i, f) ==
  IF i >= Len(list) \/ f.st.err # "" THEN f
  ELSE emitParameters(list, i + 1, emitParameter(list[i + 1], i, f))

\* the rest parameter: its value is made by createArgsRestStack
emitRest(rest, f) ==
  IF rest = Nil \/ f.st.err # "" THEN f
  ELSE Let(emit(f.st, In("createArgsRestStack", f.paramsCount)), LAMBDA s1 :
       [f EXCEPT !.emitArgsRestMark = Len(f.st.code),
                 !.st = IF rest.kind = "Identifier"
                           THEN emitPatternLexicalAssign(rest.name, compileExpression(rest, s1).st)
                           ELSE emitPattern(rest, "emitPatternLexicalAssign", FALSE, s1)])

\* if e.isExpr && e.name != nil: the function's own name, a const binding
\* initialised from the callee
bindCallee(e, f) ==
  IF e.name = "" \/ f.st.err # "" THEN f
  ELSE Let(bindNameLexical(f.st, f.k, e.name), LAMBDA r :
       IF ~r.created THEN f
          ELSE [f EXCEPT !.calleeBinding = r.b,
                         !.st = bindingEmitAt(emit(r.st, I0("loadCallee")), "b.emitInit", f.k, r.b)])

\* if firstForwardRef != -1: every binding of s goes to the stash
forwardRefsToStash(f) ==
  IF f.firstForwardRef = -1 \/ f.st.err # "" THEN f
  ELSE [f EXCEPT !.st.scope[f.k].bindings = [i \in 1..Len(@) |-> [@[i] EXCEPT !.inStash = TRUE]],
                 !.st.scope[f.k].argsInStash = TRUE,
                 !.st.scope[f.k].needStash = TRUE]

\* compiler.newBlockScope
newBlockScope(st) == [newScope(st) EXCEPT !.block = Append(@, "blockScope")]

\* the variable block scope of the body and the placeholder of enterFuncBody
enterVarScope(f) ==
  Let(newBlockScope(f.st), LAMBDA s1 :
  [f EXCEPT !.enterFunc2Mark = Len(f.st.code),
            !.st = emit([s1 EXCEPT !.scope[Len(s1.scope)].variable = TRUE], nilInstr)])

\* for _, b := range s.bindings[:paramsCount] { b.isVar = true }
paramsAreVars(f) ==
  [f EXCEPT !.st.scope[f.k].bindings =
              [i \in 1..Len(@) |-> IF i <= f.paramsCount THEN [@[i] EXCEPT !.isVar = TRUE] ELSE @[i]]]

\* the code between the preamble and the body: the complex path when there
\* are patterns or initializers, the simple path otherwise
emitBindings(e, f) ==
  IF f.hasPatterns \/ f.hasInits
  THEN enterVarScope(forwardRefsToStash(
         emitRest(Rest(ParameterList(e)),
           emitParameters(List(ParameterList(e)), 0, bindCallee(e, f)))))
  ELSE bindCallee(e, paramsAreVars(f))

\* the body, closed by loadUndef and ret unless it ends with a return
emitBody(e, f) ==
  Let(compileStatements(Body(e), 1, f.st), LAMBDA s1 :
  [f EXCEPT !.st = IF Body(e) # <<>> /\ Body(e)[Len(Body(e))].kind = "ReturnStatement"
                      THEN s1 ELSE emit2(s1, loadUndef, I0("ret"))])

\* the own name that is never read is not bound at all
elideCallee(f) ==
  IF f.calleeBinding # 0 /\ ~isDynamic(f.st.scope[f.k])
     /\ f.st.scope[f.k].bindings[f.calleeBinding].useCount = 1
  THEN [f EXCEPT !.st = deleteBinding(f.st, f.k, f.calleeBinding), !.preambleLen = @ + 2]
  ELSE f

argsToStash(f) ==
  IF ~f.st.scope[f.k].argsInStash /\ (f.st.scope[f.k].argsNeeded \/ isDynamic(f.st.scope[f.k]))
  THEN [f EXCEPT !.st = moveArgsToStash(f.st, f.k)]
  ELSE f

\* if s.argsNeeded: the arguments object is created and stored in the last
\* two places of the preamble
createArgs(f) ==
  IF ~f.st.scope[f.k].argsNeeded THEN f
  ELSE Let(bindNameLexical(f.st, f.k, "arguments"), LAMBDA r :
       IF ~r.created /\ ~r.st.scope[f.k].bindings[r.b].isVar
       THEN [f EXCEPT !.st = [r.st EXCEPT !.scope[f.k].argsNeeded = FALSE]]
       ELSE Let(f.preambleLen - 2, LAMBDA pos :
            Let(IF r.st.scope[f.k].strict \/ f.hasPatterns \/ f.hasInits
                      THEN In("createArgsUnmapped", f.paramsCount)
                      ELSE In("createArgsMapped", f.paramsCount), LAMBDA create :
            [f EXCEPT !.delta = @ + 2,
                      !.st = patch(markAccessPoint(patch(r.st, pos, create), f.k, r.b),
                                   pos + 1, In("storeStashP", 0))])))

boxThis_lastPlace(f) ==
  IF ~f.st.scope[f.k].strict /\ f.st.scope[f.k].thisNeeded
  THEN [f EXCEPT !.delta = @ + 1, !.st = patch(f.st, f.preambleLen - 1, I0("boxThis"))]
  ELSE f

\* if !s.strict && s.thisNeeded
boxThis(f) ==
  IF ~f.st.scope[f.k].strict /\ f.st.scope[f.k].thisNeeded
  THEN [f EXCEPT !.delta = @ + 1, !.st = patch(f.st, f.preambleLen - (f.delta + 1), I0("boxThis"))]
  ELSE f

\* the enter instruction of the function and the patched enterFuncBody
enterFuncBody(f, adjustStack) ==
  IF f.enterFunc2Mark = -1 THEN f.st
  ELSE patch(f.st, f.enterFunc2Mark, In("enterFuncBody", IF adjustStack THEN 1 ELSE 0))

enterFunc(f) ==
  IF stashSize(f.st.scope[f.k]) > 0 \/ f.st.scope[f.k].argsInStash
  THEN Let(enterFuncBody(f, f.firstForwardRef # -1), LAMBDA s1 :
       Let(IF f.emitArgsRestMark # -1 /\ s1.scope[f.k].argsInStash
                 THEN patch(s1, f.emitArgsRestMark, I0("createArgsRestStash")) ELSE s1, LAMBDA s2 :
       [f EXCEPT !.st = s2,
                 !.enter = IF f.firstForwardRef = -1 THEN In("enterFunc", f.paramsCount)
                              ELSE In("enterFunc1", f.firstForwardRef)]))
  ELSE [f EXCEPT !.st = enterFuncBody(f, FALSE), !.enter = In("enterFuncStashless", f.paramsCount)]

\* the preamble not used is sliced off, the source map following it
slice(f) ==
  Let(f.preambleLen - (f.delta + 1), LAMBDA delta :
  Let(patch(f.st, delta, f.enter), LAMBDA s1 :
  IF delta = 0 \/ s1.err # "" THEN [f EXCEPT !.st = s1]
     ELSE [f EXCEPT !.st = [s1 EXCEPT !.code = SubSeq(@, delta + 1, Len(@)),
                                      !.srcMap = [i \in 1..Len(@) |->
                                                    [@[i] EXCEPT !.pc = @ - delta]]]]))

\* popping the variable block scope, if any, and the function scope
popScopes_functionOnly(f) == popScope(f.st)

popScopes(f) == IF f.enterFunc2Mark # -1 THEN popScope(popScope(f.st)) ELSE popScope(f.st)

\* compiledFunctionLiteral.emitGetter: the function gets a Program and a
\* scope of its own; its parameters are bound, the code binding them and
\* the body are emitted behind a preamble of four places, the preamble is
\* patched, and the outer Program gets newFunc / newMethod / newArrowFunc.
compiledFunctionLiteral_emitGetter(e, put, st) ==
  Let(newScope([st EXCEPT !.code = <<>>, !.srcMap = <<>>, !.block = <<"blockScope">>]), LAMBDA s0 :
  Let([s0 EXCEPT !.scope[Len(s0.scope)].function = TRUE,
                       !.scope[Len(s0.scope)].arrow = isArrow(e),
                       !.scope[Len(s0.scope)].strict = @ \/ e.flag], LAMBDA s1 :
  Let(ParameterList(e), LAMBDA pl :
  Let(parameterLoop(e, List(pl), 1,
             [st |-> s1, hasPatterns |-> Rest(pl) # Nil, hasInits |-> FALSE,
              firstDupIdx |-> -1, length |-> 0]), LAMBDA a :
  Let(IF a.st.err = "" /\ a.hasPatterns
            THEN Let(patternBindings(List(pl), 1, a.st), LAMBDA b :
                 IF Rest(pl) # Nil THEN compileParameterPatternBinding(Rest(pl), 1, b) ELSE b)
            ELSE a.st, LAMBDA s2 :
  IF s2.err # "" THEN s2
  ELSE
  Let([st |-> [s2 EXCEPT !.scope[Len(s2.scope)].numArgs = Len(List(pl)),
                         !.code = <<nilInstr, nilInstr, nilInstr, nilInstr>>],
       k |-> Len(s2.scope), hasPatterns |-> a.hasPatterns, hasInits |-> a.hasInits,
       paramsCount |-> Len(List(pl)), calleeBinding |-> 0, preambleLen |-> 4,
       emitArgsRestMark |-> -1, firstForwardRef |-> -1, enterFunc2Mark |-> -1,
       delta |-> 0, enter |-> nilInstr], LAMBDA f0 :
  Let(emitBody(e, emitBindings(e, f0)), LAMBDA f1 :
  IF f1.st.err # "" THEN f1.st
  ELSE
  Let(slice(enterFunc(boxThis(createArgs(argsToStash(elideCallee(f1)))))), LAMBDA f2 :
  Let(f2.st.scope[f2.k].strict, LAMBDA strict :
  Let(Program("func", f2.st.code, f2.st.srcMap, SubSeq(f2.st.scope, f2.k, Len(f2.st.scope))), LAMBDA p :
  Let([popScopes(f2) EXCEPT !.code = st.code, !.srcMap = st.srcMap, !.block = st.block,
                            !.prgs = Append(@, p)], LAMBDA s3 :
  Let(IF isArrow(e) THEN "newArrowFunc" ELSE IF isMethod(e) THEN "newMethod" ELSE "newFunc", LAMBDA op :
  PopUnless(put, emit(s3, Instr(op, a.length, funcName(e),
                                IF strict THEN valueTrue ELSE valueFalse)))))))))))))))

__proto__ == "__proto__"
DuplicateProto == "Duplicate __proto__ fields are not allowed in object literals"

\* one PropertyKeyed of an object literal: the state and hasProto after it
emitPropertyKeyed(prop, hasProto, st) ==
  Let(compileExpression(prop.kids[1], st), LAMBDA k :
  Let(k.e.kind = "compiledLiteral", LAMBDA isLit :
  Let(~isLit, LAMBDA computed :
  Let(IF isLit THEN ToStr(k.e.val) ELSE "", LAMBDA key :
  Let(IF isLit THEN k.st ELSE emitGetter(k.e, TRUE, k.st), LAMBDA s1 :
  Let(compileExpression(prop.kids[2], s1), LAMBDA v :
  Let(v.e.kind = "compiledFunctionLiteral", LAMBDA isFn :
  Let(isFn /\ v.e.name = "", LAMBDA anonFn :
  Let(~computed /\ key = __proto__ /\ ~prop.flag, LAMBDA isProto :
  Let(IF isFn /\ prop.tok \in {"method", "get", "set"}
            THEN [v.e EXCEPT !.strs = <<"method">>] ELSE v.e, LAMBDA fn :
  Let(IF anonFn /\ ~computed /\ ~isProto THEN [fn EXCEPT !.val = newStringValue(key)] ELSE fn, LAMBDA valueExpr :
  IF computed
     THEN Let(emitGetter(valueExpr, TRUE, emit(v.st, I0("_toPropertyKey"))), LAMBDA s2 :
          [st |-> CASE prop.tok \in {"value", "method"} ->
                            emit(s2, I0(IF anonFn THEN "setElem1Named" ELSE "setElem1"))
                       [] prop.tok = "get" -> emit(s2, I0("setPropGetter1"))
                       [] prop.tok = "set" -> emit(s2, I0("setPropSetter1"))
                       [] OTHER -> panic(s2, "unknown property kind"),
              hasProto |-> hasProto])
     ELSE Let(IF isProto /\ hasProto
                    THEN throwSyntaxErrorAt(v.st, prop.offset, DuplicateProto)
                    ELSE v.st, LAMBDA s2 :
          Let(emitGetter(valueExpr, TRUE, s2), LAMBDA s3 :
          [st |-> CASE prop.tok = "value" ->
                            IF isProto THEN emit(s3, I0("setProto")) ELSE emit(s3, Is("setProp1", key))
                       [] prop.tok = "method" -> emit(s3, Is("setProp1", key))
                       [] prop.tok = "get" -> emit(s3, Is("setPropGetter", key))
                       [] prop.tok = "set" -> emit(s3, Is("setPropSetter", key))
                       [] OTHER -> panic(s3, "unknown property kind"),
              hasProto |-> hasProto \/ isProto])))))))))))))

\* the loop over the properties of an object literal
RECURSIVE emitProperties(_, _, _, _)
emitProperties(e, i, hasProto, s) ==
  IF i > Len(e.kids) THEN s
  ELSE Let(e.kids[i], LAMBDA prop :
       CASE prop.kind = "PropertyKeyed" ->
              Let(emitPropertyKeyed(prop, hasProto, s), LAMBDA r :
              emitProperties(e, i + 1, r.hasProto, r.st))
         [] prop.kind = "PropertyShort" ->
              Let(IF prop.flag
                  THEN throwSyntaxError(s, "Invalid shorthand property initializer")
                  ELSE s, LAMBDA s1 :
              Let(IF CurStrict(s1) /\ prop.name = "let"
                  THEN throwSyntaxError(s1, "'let' cannot be used as a shorthand property in strict mode")
                  ELSE s1, LAMBDA s2 :
              Let(compileExpression(Leaf("Identifier", prop.name, NoVal, FALSE), s2), LAMBDA id :
              emitProperties(e, i + 1, hasProto,
                             emit(emitGetter(id.e, TRUE, id.st), Is("setProp1", prop.name))))))
         [] prop.kind = "SpreadElement" ->
              Let(compileExpression(prop.kids[1], s), LAMBDA c :
              emitProperties(e, i + 1, hasProto,
                             emit(emitGetter(c.e, TRUE, c.st), I0("copySpread"))))
         [] OTHER -> panic(s, "unknown Property type"))

compiledObjectLiteral_emitGetter(e, put, st) ==
  PopUnless(put, emitProperties(e, 1, FALSE, emit(addSrcMap(e, st), I0("newObject"))))

compiledExpr_emitGetter(e, put, st) ==
  IF st.err # "" THEN st
  ELSE
    CASE e.kind = "compiledLiteral" -> compiledLiteral_emitGetter(e, put, st)
      [] e.kind = "constantExpr" -> constantExpr_emitGetter(e, put, st)
      [] e.kind = "compiledIdentifierExpr" -> compiledIdentifierExpr_emitGetter(e, put, st)
      [] e.kind = "compiledThisExpr" -> compiledThisExpr_emitGetter(e, put, st)
      [] e.kind = "compiledNewTarget" -> compiledNewTarget_emitGetter(e, put, st)
      [] e.kind = "compiledDotExpr" -> compiledDotExpr_emitGetter(e, put, st)
      [] e.kind = "compiledBracketExpr" -> compiledBracketExpr_emitGetter(e, put, st)
      [] e.kind = "compiledCallExpr" -> compiledCallExpr_emitGetter(e, put, st)
      [] e.kind = "compiledNewExpr" -> compiledNewExpr_emitGetter(e, put, st)
      [] e.kind = "compiledSpreadCallArgument" -> compiledSpreadCallArgument_emitGetter(e, put, st)
      [] e.kind = "compiledUnaryExpr" -> compiledUnaryExpr_emitGetter(e, put, st)
      [] e.kind = "compiledBinaryExpr" -> compiledBinaryExpr_emitGetter(e, put, st)
      [] e.kind = "compiledLogicalOr" -> compiledLogicalOr_emitGetter(e, put, st)
      [] e.kind = "compiledLogicalAnd" -> compiledLogicalAnd_emitGetter(e, put, st)
      [] e.kind = "compiledConditionalExpr" -> compiledConditionalExpr_emitGetter(e, put, st)
      [] e.kind = "compiledSequenceExpr" -> compiledSequenceExpr_emitGetter(e, put, st)
      [] e.kind = "compiledAssignExpr" -> compiledAssignExpr_emitGetter(e, put, st)
      [] e.kind = "compiledTemplateLiteral" -> compiledTemplateLiteral_emitGetter(e, put, st)
      [] e.kind = "compiledObjectLiteral" -> compiledObjectLiteral_emitGetter(e, put, st)
      [] e.kind = "compiledArrayLiteral" -> compiledArrayLiteral_emitGetter(e, put, st)
      [] e.kind = "compiledRegexpLiteral" -> compiledRegexpLiteral_emitGetter(e, put, st)
      [] e.kind = "compiledFunctionLiteral" -> compiledFunctionLiteral_emitGetter(e, put, st)
      [] e.kind = "deleteGlobalExpr" -> deleteGlobalExpr_emitGetter(e, put, st)
      [] e.kind = "deleteVarExpr" -> deleteVarExpr_emitGetter(e, put, st)
      [] e.kind = "deletePropExpr" -> deletePropExpr_emitGetter(e, put, st)
      [] e.kind = "deleteElemExpr" -> deleteElemExpr_emitGetter(e, put, st)
      [] e.kind = "defaultDeleteExpr" -> defaultDeleteExpr_emitGetter(e, put, st)
      [] e.kind = "compiledEmitterExpr" -> compiledEmitterExpr_emitGetter(e, put, st)
      [] e.kind = "compiledPatternInitExpr" -> compiledPatternInitExpr_emitGetter(e, put, st)
      [] e.kind = "compiledArrayAssignmentPattern" ->
           compiledArrayAssignmentPattern_emitGetter(e, put, st)
      [] OTHER -> panic(st, "nil expression")

\* constant(): the answer and the compiler state (the logical operators fold
\* their left operand to answer)
compiledExpr_constant(e, st) ==
  CASE e.kind = "compiledLiteral" -> [st |-> st, b |-> TRUE]
    [] e.kind = "compiledUnaryExpr" -> compiledUnaryExpr_constant(e, st)
    [] e.kind = "compiledBinaryExpr" -> compiledBinaryExpr_constant(e, st)
    [] e.kind = "compiledLogicalOr" -> compiledLogicalOr_constant(e, st)
    [] e.kind = "compiledLogicalAnd" -> compiledLogicalAnd_constant(e, st)
    [] OTHER -> [st |-> st, b |-> FALSE]

RECURSIVE compileList(_, _, _, _)
\* compileExpression over kids[i..], in order
compileList(kids, i, acc, st) ==
  IF i > Len(kids) THEN [st |-> st, es |-> acc]
  ELSE Let(compileExpression(kids[i], st), LAMBDA c :
       compileList(kids, i + 1, Append(acc, c.e), c.st))

\* compileCallArgs: a SpreadElement becomes a compiledSpreadCallArgument
RECURSIVE compileCallArgs(_, _, _, _)
compileCallArgs(kids, i, acc, st) ==
  IF i > Len(kids) THEN [st |-> st, es |-> acc, isVariadic |-> \E k \in 1..Len(kids) : k >= 2 /\ kids[k].kind = "SpreadElement"]
  ELSE IF kids[i].kind = "SpreadElement"
  THEN Let(compileExpression(kids[i].kids[1], st), LAMBDA c :
       compileCallArgs(kids, i + 1,
            Append(acc, init(Tree("compiledSpreadCallArgument", "", FALSE, <<c.e>>), kids[i].offset + 1)), c.st))
  ELSE Let(compileExpression(kids[i], st), LAMBDA c :
       compileCallArgs(kids, i + 1, Append(acc, c.e), c.st))

Compiled(v, kind, kids) == [v EXCEPT !.kind = kind, !.kids = kids]

\* flag of a function literal: isStrictStatement(v.Body) # nil
compileFunctionLiteral(v, st) ==
  [st |-> IF v.name # "" /\ (CurStrict(st) \/ v.flag) THEN checkIdentifierLName(st, v.name) ELSE st,
   e |-> [v EXCEPT !.kind = "compiledFunctionLiteral", !.tok = ""]]

compileArrowFunctionLiteral(v, st) ==
  [st |-> st, e |-> [v EXCEPT !.kind = "compiledFunctionLiteral", !.tok = "arrow"]]

compiler_compileExpression(v, st) ==
  IF st.err # "" THEN [st |-> st, e |-> Nil]
  ELSE
    CASE v.kind = "nil" -> [st |-> st, e |-> Nil]
      [] v.kind \in {"NumberLiteral", "BigIntLiteral"} ->
           IF CurStrict(st) /\ v.flag
           THEN [st |-> throwSyntaxError(st, "Octal literals are not allowed in strict mode"), e |-> Nil]
           ELSE [st |-> st, e |-> Compiled(v, "compiledLiteral", <<>>)]
      [] v.kind \in {"StringLiteral", "BooleanLiteral", "NullLiteral"} ->
           [st |-> st, e |-> Compiled(v, "compiledLiteral", <<>>)]
      [] v.kind = "Identifier" ->
           [st |-> IF CurStrict(st) THEN checkIdentifierName(st, v.name) ELSE st,
            e |-> Compiled(v, "compiledIdentifierExpr", <<>>)]
      [] v.kind = "ThisExpression" -> [st |-> st, e |-> Compiled(v, "compiledThisExpr", <<>>)]
      [] v.kind = "RegExpLiteral" -> [st |-> st, e |-> Compiled(v, "compiledRegexpLiteral", <<>>)]
      [] v.kind = "MetaProperty" -> compileMetaProperty(v, st)
      [] v.kind = "FunctionLiteral" -> compileFunctionLiteral(v, st)
      [] v.kind = "ArrowFunctionLiteral" -> compileArrowFunctionLiteral(v, st)
      [] v.kind \in {"ObjectLiteral", "ArrayLiteral"} ->
           [st |-> st,
            e |-> [v EXCEPT !.kind = IF v.kind = "ObjectLiteral" THEN "compiledObjectLiteral"
                                     ELSE "compiledArrayLiteral"]]
      [] v.kind = "ArrayPattern" ->
           [st |-> st, e |-> [v EXCEPT !.kind = "compiledArrayAssignmentPattern"]]
      [] v.kind \in {"CallExpression", "NewExpression"} ->
           Let(compileCallArgs(v.kids, 2, <<>>, st), LAMBDA a :
           Let(compileExpression(v.kids[1], a.st), LAMBDA c :
           [st |-> c.st,
               e |-> [v EXCEPT !.kind = IF v.kind = "CallExpression" THEN "compiledCallExpr"
                                        ELSE "compiledNewExpr",
                               !.kids = <<c.e>> \o a.es, !.flag = a.isVariadic]]))
      [] v.kind = "SequenceExpression" ->
           Let(compileList(v.kids, 1, <<>>, st), LAMBDA c :
           [st |-> c.st,
               e |-> init(Compiled(v, "compiledSequenceExpr", c.es),
                          IF Len(v.kids) > 0 THEN v.offset + 1 ELSE 0)])
      [] v.kind \in {"AssignExpression", "BinaryExpression", "UnaryExpression",
                     "ConditionalExpression", "DotExpression", "BracketExpression",
                     "TemplateLiteral"} ->
           Let(compileList(v.kids, 1, <<>>, st), LAMBDA c :
           Let(CASE v.kind = "AssignExpression" -> "compiledAssignExpr"
                         [] v.kind = "BinaryExpression" ->
                              IF v.tok = "LOGICAL_OR" THEN "compiledLogicalOr"
                              ELSE IF v.tok = "LOGICAL_AND" THEN "compiledLogicalAnd"
                              ELSE "compiledBinaryExpr"
                         [] v.kind = "UnaryExpression" -> "compiledUnaryExpr"
                         [] v.kind = "ConditionalExpression" -> "compiledConditionalExpr"
                         [] v.kind = "DotExpression" -> "compiledDotExpr"
                         [] v.kind = "BracketExpression" -> "compiledBracketExpr"
                         [] OTHER -> "compiledTemplateLiteral", LAMBDA kind :
           [st |-> c.st, e |-> Compiled(v, kind, c.es)]))
      [] OTHER -> [st |-> panic(st, "Unknown expression type"), e |-> Nil]


Call(f, a) ==
  CASE f = "emitGetter" -> compiledExpr_emitGetter(a.e, a.put, a.st)
    [] f = "constant" -> compiledExpr_constant(a.e, a.st)
    [] f = "emitExpr" -> compiler_emitExpr(a.e, a.put, a.st)
    [] f = "evalConst" -> compiler_evalConst(a.e, a.st)
    [] f = "compileExpression" -> compiler_compileExpression(a.e, a.st)
    [] f = "emitCallee" -> compiler_emitCallee(a.e, a.st)
    [] f = "emitSetter" -> emitSetter(a.e, a.valueExpr, a.put, a.st)
    [] f = "emitUnary" -> emitUnary(a.e, a.prepare, a.body, a.postfix, a.put, a.st)
    [] f = "emitRef" -> emitRef(a.e, a.st)

(***************************************************************************)
(* Stack effect of emitted code.  The abstract stack is its depth d and the *)
(* depths at which startVariadic left its marker; a path ends at the end of *)
(* the code, or at a throw.  Exits is the set of depths at which paths      *)
(* through the jumps leave the code, Underflow standing for a path that     *)
(* pops an empty stack.                                                     *)
(***************************************************************************)
Underflow == -1000
SpreadCounts == {0, 2}

\* <<values popped, values pushed>> of an instruction without control flow
Effect(i) ==
  CASE i.op \in {"loadVal", "loadUndef", "loadNil", "loadGlobalObject", "loadStack",
                 "loadNewTarget", "loadDynamic", "loadDynamicRef", "newObject", "newArray",
                 "newRegexp", "b.emitGet", "deleteVar", "deleteGlobal", "getValue",
                 "getTaggedTmplObject", "loadCallee", "newFunc", "newMethod",
                 "newArrowFunc"} -> <<0, 1>>
    [] i.op = "b.emitGetVar" -> <<0, 1 + i.n>>
    [] i.op = "loadDynamicCallee" -> <<0, 2>>
    [] i.op \in {"b.emitGetP", "resolveVar1", "resolveVar1Strict", "b.emitResolveVar", "nil"} -> <<0, 0>>
    [] i.op \in {"getProp", "getPropCallee", "deleteProp", "deletePropStrict", "not", "bnot",
                 "typeof", "neg", "plus", "inc", "dec", "toNumber", "_toString",
                 "_toPropertyKey", "putValue", "setGlobal", "setGlobalStrict", "b.emitSet"} -> <<1, 1>>
    [] i.op \in {"getElem", "getElemCallee", "deleteElem", "deleteElemStrict", "setProp",
                 "setPropStrict", "setProp1", "setPropGetter", "setPropSetter", "setProto",
                 "copySpread", "pushArrayItem", "pushArraySpread"} -> <<2, 1>>
    [] i.op \in BinaryInstrs -> <<2, 1>>
    [] i.op \in {"pop", "putValueP", "b.emitSetP", "getPropRef", "getPropRefStrict"} -> <<1, 0>>
    [] i.op \in {"setPropP", "setPropStrictP", "getElemRef", "getElemRefStrict"} -> <<2, 0>>
    [] i.op \in {"setElem", "setElemStrict", "setElem1", "setElem1Named", "setPropGetter1",
                 "setPropSetter1"} -> <<3, 1>>
    [] i.op \in {"setElemP", "setElemStrictP"} -> <<3, 0>>
    [] i.op = "dup" -> <<1, 2>>
    [] i.op = "dupN" -> <<i.n + 1, i.n + 2>>
    [] i.op = "rdupN" -> <<i.n + 1, i.n + 1>>
    [] i.op = "concatStrings" -> <<i.n, 1>>
    [] i.op \in {"call", "callEval", "callEvalStrict"} -> <<i.n + 2, 1>>
    [] i.op = "_new" -> <<i.n + 1, 1>>
    [] OTHER -> <<0, 0>>

RECURSIVE Exits(_, _, _, _)
Exits(prg, pc, d, marks) ==
  IF pc >= Len(prg) THEN {d}
  ELSE
    Let(prg[pc + 1], LAMBDA i :
    Let(IF marks = <<>> THEN 0 ELSE marks[Len(marks)] + 1, LAMBDA top :
    CASE i.op \in {"throw", "halt"} -> {}
      [] i.op = "jump" -> Exits(prg, pc + i.n, d, marks)
      [] i.op = "jne" ->
           IF d - top < 1 THEN {Underflow}
           ELSE Exits(prg, pc + i.n, d - 1, marks) \cup Exits(prg, pc + 1, d - 1, marks)
      [] i.op \in {"jeq1", "jneq1"} ->
           IF d - top < 1 THEN {Underflow}
           ELSE Exits(prg, pc + i.n, d, marks) \cup Exits(prg, pc + 1, d, marks)
      [] i.op = "startVariadic" -> Exits(prg, pc + 1, d + 1, Append(marks, d))
      [] i.op = "pushSpread" ->
           IF d - top < 1 THEN {Underflow}
           ELSE UNION {Exits(prg, pc + 1, d - 1 + k, marks) : k \in SpreadCounts}
      [] i.op \in {"callVariadic", "callEvalVariadic", "callEvalVariadicStrict", "newVariadic"} ->
           Let(IF i.op = "newVariadic" THEN 1 ELSE 2, LAMBDA need :
           IF marks = <<>> \/ d - top < need THEN {Underflow}
              ELSE Exits(prg, pc + 1, top + 1, marks))
      [] i.op = "endVariadic" ->
           IF marks = <<>> \/ d - top < 1 THEN {Underflow}
           ELSE Exits(prg, pc + 1, d - 1, SubSeq(marks, 1, Len(marks) - 1))
      [] OTHER ->
           Let(Effect(i), LAMBDA ef :
           IF d - top < ef[1] THEN {Underflow}
              ELSE Exits(prg, pc + 1, d - ef[1] + ef[2], marks))))

\* net stack effects of the code appended after the first `from` instructions
NetEffects(prg, from) == Exits(SubSeq(prg, from + 1, Len(prg)), 0, 0, <<>>)


(***************************************************************************)
(* The expressions handed to the compiler.  The parser builds an AST from  *)
(* a leaf outwards, each step making the tree built so far an operand of a *)
(* new node; the statement compiler then calls compileExpression in its    *)
(* current scope and emits the result, directly (emitGetter) or through    *)
(* the constant folder (emitExpr).                                         *)
(***************************************************************************)
Num(n) == Leaf("NumberLiteral", "", intToValue(n), FALSE)
Big(n) == Leaf("BigIntLiteral", "", valueBigInt(n), FALSE)
Id(name) == Leaf("Identifier", name, NoVal, FALSE)
Meta(meta, property) == Node("MetaProperty", meta, property, NoVal, FALSE, <<>>, <<>>, 1)
Str(s) == Leaf("StringLiteral", "", newStringValue(s), FALSE)

MetaNames == {"new", "import"}
PropertyNames == {"target", "meta"}

Leaves ==
  {Num(0), Num(1), Big(0), Big(1), Id("a"), Id("g"), Id("eval"),
   Leaf("ThisExpression", "", NoVal, FALSE),
   Leaf("RegExpLiteral", "", NoVal, TRUE), Leaf("RegExpLiteral", "", NoVal, FALSE)}
  \cup {Meta(m, p) : m \in MetaNames, p \in PropertyNames}

UnaryTokens == {"NOT", "TYPEOF", "DELETE", "MINUS", "VOID", "INCREMENT"}

RECURSIVE Depth(_)
Depth(x) ==
  IF x.kids = <<>> THEN 0
  ELSE Let({Depth(x.kids[i]) : i \in 1..Len(x.kids)}, LAMBDA ds :
       1 + CHOOSE d \in ds : \A o \in ds : o <= d)

\* the scope chains the statement compiler can be in: a function body, a
\* strict function body, and a `with` block inside a function body
Scopes ==
  {<<NewScope(FALSE, TRUE, FALSE, FALSE, {"a"})>>,
   <<NewScope(TRUE, TRUE, FALSE, FALSE, {"a"})>>,
   <<NewScope(FALSE, TRUE, FALSE, FALSE, {"a"}), NewScope(FALSE, FALSE, FALSE, TRUE, {})>>}

Init ==
  /\ ast = Nil
  /\ node = Nil
  /\ phase = "start"
  /\ code = <<>>
  /\ srcMap = <<>>
  /\ err = ""
  /\ scope = <<>>
  /\ putOnStack = FALSE
  /\ entry = ""
  /\ prgs = <<>>

\* the operand of a larger expression; of the meta properties only the
\* well-formed new.target is nested further
Grow(x) ==
  /\ phase = "parse"
  /\ Depth(ast) < MaxDepth
  /\ ast.kind = "MetaProperty" => ast.tok = "new" /\ ast.name = "target"
  /\ ast' = x
  /\ UNCHANGED <<node, phase, code, srcMap, err, scope, putOnStack, entry, prgs>>

ParseLeaf ==
  /\ phase = "start"
  /\ \E l \in Leaves : ast' = l
  /\ phase' = "parse"
  /\ UNCHANGED <<node, code, srcMap, err, scope, putOnStack, entry, prgs>>

ParseUnary ==
  \E tok \in UnaryTokens, postfix \in BOOLEAN :
    /\ postfix => tok = "INCREMENT"
    /\ Grow(Tree("UnaryExpression", tok, postfix, <<ast>>))

ParseBinary ==
  \/ Grow(Tree("BinaryExpression", "PLUS", FALSE, <<ast, Num(1)>>))
  \/ Grow(Tree("BinaryExpression", "SLASH", FALSE, <<Big(1), ast>>))

ParseLogical ==
  \E tok \in {"LOGICAL_OR", "LOGICAL_AND"} :
    \/ Grow(Tree("BinaryExpression", tok, FALSE, <<ast, Id("a")>>))
    \/ Grow(Tree("BinaryExpression", tok, FALSE, <<Num(IF tok = "LOGICAL_OR" THEN 0 ELSE 1), ast>>))

ParseConditional == Grow(Tree("ConditionalExpression", "", FALSE, <<ast, Num(1), Id("a")>>))

ParseSequence ==
  \/ Grow(Tree("SequenceExpression", "", FALSE, <<ast, Num(1)>>))
  \/ Grow(Tree("SequenceExpression", "", FALSE, <<Id("a"), ast>>))

ParseCall ==
  \/ Grow(Tree("CallExpression", "", FALSE, <<ast>>))
  \/ Grow(Tree("CallExpression", "", FALSE, <<Id("a"), ast>>))
  \/ Grow(Tree("CallExpression", "", FALSE, <<ast, Tree("SpreadElement", "", FALSE, <<Id("a")>>)>>))

ParseNew == Grow(Tree("NewExpression", "", FALSE, <<ast>>))

ParseMember ==
  \/ Grow([Tree("DotExpression", "", FALSE, <<ast>>) EXCEPT !.name = "p"])
  \/ Grow(Tree("BracketExpression", "", FALSE, <<ast, Num(1)>>))

ParseAssign ==
  \/ \E tok \in {"ASSIGN", "PLUS"} : Grow(Tree("AssignExpression", tok, FALSE, <<ast, Num(1)>>))
  \/ Grow(Tree("AssignExpression", "ASSIGN", FALSE, <<Id("a"), ast>>))

ParseTemplate ==
  \/ Grow([Tree("TemplateLiteral", "", FALSE, <<ast>>) EXCEPT !.strs = <<"", "s">>])
  \/ Grow([Tree("TemplateLiteral", "", TRUE, <<ast>>) EXCEPT !.strs = <<"s">>])

ParseArray == Grow(Tree("ArrayLiteral", "", FALSE, <<Nil, ast, Tree("SpreadElement", "", FALSE, <<Id("a")>>)>>))

ParseObject ==
  Grow(Tree("ObjectLiteral", "", FALSE,
            <<Tree("PropertyKeyed", "value", FALSE, <<Str("k"), ast>>),
              Tree("SpreadElement", "", FALSE, <<Id("a")>>)>>))

CompiledAs(c) ==
  /\ node' = c.e
  /\ err' = c.st.err
  /\ scope' = c.st.scope
  /\ code' = c.st.code
  /\ srcMap' = c.st.srcMap
  /\ prgs' = c.st.prgs
  /\ phase' = "compiled"
  /\ UNCHANGED <<ast, putOnStack, entry>>

\* c.compileExpression(v) in the scope chain ch
CompileExpression ==
  /\ phase = "parse"
  /\ \E ch \in Scopes : CompiledAs(compileExpression(ast, NewCompiler(ch)))

Compiler == [NewCompiler(scope) EXCEPT !.code = code, !.srcMap = srcMap, !.prgs = prgs]

Emitted(st, put, en) ==
  /\ code' = st.code
  /\ srcMap' = st.srcMap
  /\ prgs' = st.prgs
  /\ err' = st.err
  /\ scope' = st.scope
  /\ putOnStack' = put
  /\ entry' = en
  /\ phase' = "emitted"
  /\ UNCHANGED <<ast, node>>

\* expr.emitGetter(putOnStack)
EmitGetter ==
  /\ phase = "compiled" /\ err = ""
  /\ \E put \in BOOLEAN : Emitted(emitGetter(node, put, Compiler), put, "emitGetter")

\* c.emitExpr(expr, putOnStack)
EmitExpr ==
  /\ phase = "compiled" /\ err = ""
  /\ \E put \in BOOLEAN : Emitted(emitExpr(node, put, Compiler), put, "emitExpr")

Next ==
  \/ ParseLeaf \/ ParseUnary \/ ParseBinary \/ ParseLogical \/ ParseConditional
  \/ ParseSequence \/ ParseCall \/ ParseNew \/ ParseMember \/ ParseAssign
  \/ ParseTemplate \/ ParseArray \/ ParseObject
  \/ CompileExpression \/ EmitGetter \/ EmitExpr

Spec == Init /\ [][Next]_vars


(***************************************************************************)
(* Function literals handed to the compiler: the parser appends the        *)
(* parameters one at a time, then the rest element, and may make the       *)
(* function a method of an object literal.                                 *)
(***************************************************************************)
FunctionKinds == {"FunctionLiteral", "ArrowFunctionLiteral"}

Function(kind, useStrict) ==
  Node(kind, "", "", NoVal, useStrict, <<>>,
       <<Node("ParameterList", "", "", NoVal, FALSE, <<>>, <<>>, 1)>>, 1)

ObjectPattern(ids) == Tree("ObjectPattern", "", FALSE, ids)

Targets == {Id("a"), Id("b"), Id("eval"), ObjectPattern(<<Id("a")>>), ObjectPattern(<<Id("b"), Id("b")>>)}
RestTargets == {Id("a"), Id("r"), ObjectPattern(<<Id("b")>>)}

\* the target as the i-th parameter: offsets grow with the position
At(tgt, i) ==
  [tgt EXCEPT !.offset = 10 * i,
              !.kids = [j \in 1..Len(tgt.kids) |-> [tgt.kids[j] EXCEPT !.offset = 10 * i + j]]]

InitFunc ==
  /\ ast \in {Function(k, u) : k \in FunctionKinds, u \in BOOLEAN}
  /\ node = Nil
  /\ phase = "parse"
  /\ code = <<>>
  /\ srcMap = <<>>
  /\ err = ""
  /\ scope = <<>>
  /\ putOnStack = FALSE
  /\ entry = ""
  /\ prgs = <<>>

ParseParameter ==
  /\ phase = "parse"
  /\ ast.kind \in FunctionKinds
  /\ ~ParameterList(ast).flag
  /\ Len(ParameterList(ast).kids) < MaxParams
  /\ \E tgt \in Targets, hasInit \in BOOLEAN :
       LET i == Len(ParameterList(ast).kids) + 1
           item == Node("Binding", "", "", NoVal, hasInit, <<>>,
                        IF hasInit THEN <<At(tgt, i), Num(1)>> ELSE <<At(tgt, i)>>, 10 * i)
       IN ast' = [ast EXCEPT !.kids[1].kids = Append(@, item)]
  /\ UNCHANGED <<node, phase, code, srcMap, err, scope, putOnStack, entry, prgs>>

ParseRest ==
  /\ phase = "parse"
  /\ ast.kind \in FunctionKinds
  /\ ~ParameterList(ast).flag
  /\ \E tgt \in RestTargets :
       ast' = [ast EXCEPT !.kids[1].kids = Append(@, At(tgt, Len(@) + 1)),
                          !.kids[1].flag = TRUE]
  /\ UNCHANGED <<node, phase, code, srcMap, err, scope, putOnStack, entry, prgs>>

\* { m(...) {...} }
ParseMethod ==
  /\ phase = "parse"
  /\ ast.kind = "FunctionLiteral"
  /\ ast' = Tree("ObjectLiteral", "", FALSE,
                 <<Tree("PropertyKeyed", "method", FALSE, <<Str("m"), ast>>)>>)
  /\ UNCHANGED <<node, phase, code, srcMap, err, scope, putOnStack, entry, prgs>>

NextFunc ==
  \/ ParseParameter \/ ParseRest \/ ParseMethod
  \/ CompileExpression \/ EmitGetter \/ EmitExpr

SpecFunc == InitFunc /\ [][NextFunc]_vars

(***************************************************************************)
(* Object literals handed to the compiler, property by property.           *)
(***************************************************************************)
PropertyKinds == {"value", "method", "get", "set"}

\* key: value / key() {} / get key() {} / set key(v) {}
PropertyKeyed(kind, key, computed) ==
  Tree("PropertyKeyed", kind, computed,
       <<key, IF kind = "value" THEN Num(1) ELSE Function("FunctionLiteral", FALSE)>>)

Properties ==
  {PropertyKeyed(k, Str(__proto__), c) : k \in PropertyKinds, c \in BOOLEAN}
  \cup {PropertyKeyed(k, Str("k"), FALSE) : k \in PropertyKinds}
  \cup {PropertyKeyed("value", Id("a"), TRUE),
        Leaf("PropertyShort", __proto__, NoVal, FALSE),
        Tree("SpreadElement", "", FALSE, <<Id("a")>>)}

InitObj ==
  /\ ast = Tree("ObjectLiteral", "", FALSE, <<>>)
  /\ node = Nil
  /\ phase = "parse"
  /\ code = <<>>
  /\ srcMap = <<>>
  /\ err = ""
  /\ scope = <<>>
  /\ putOnStack = FALSE
  /\ entry = ""
  /\ prgs = <<>>

ParseProperty ==
  /\ phase = "parse"
  /\ ast.kind = "ObjectLiteral"
  /\ Len(ast.kids) < MaxProps
  /\ \E prop \in Properties :
       ast' = [ast EXCEPT !.kids = Append(@, [prop EXCEPT !.offset = 10 * (Len(ast.kids) + 1)])]
  /\ UNCHANGED <<node, phase, code, srcMap, err, scope, putOnStack, entry, prgs>>

NextObj == ParseProperty \/ CompileExpression \/ EmitGetter \/ EmitExpr

SpecObj == InitObj /\ [][NextObj]_vars

(***************************************************************************)
(* Properties of the expression compiler.                                  *)
(***************************************************************************)
PanicMessages ==
  {"No dynamics and not found", "Unknown assign operator", "Unknown expression type",
   "Unknown operator", "Unknown unary operator", "nil expression", "unknown Property type",
   "unknown exception type thrown while evaluating constant expression",
   "unknown property kind"}

\* the compilation ended with a SyntaxError, not with a panic of the compiler
IsSyntaxError(e) == e # "" /\ \A m \in PanicMessages : e # "panic: " \o m

Emits == phase = "compiled" /\ phase' = "emitted"

\* C1: for every expression node kind, the code appended by
\* emitGetter(putOnStack) leaves exactly one more value on the stack when
\* putOnStack is true and the stack height unchanged when it is false, on
\* every path through the emitted jumps.
C1_EmitGetterStackEffect ==
  (phase = "emitted" /\ entry = "emitGetter" /\ err = "") =>
    NetEffects(code, 0) \subseteq {IF putOnStack THEN 1 ELSE 0}

ReferenceKinds == {"compiledIdentifierExpr", "compiledDotExpr", "compiledBracketExpr"}

\* C2: for an operand that is not an identifier, dot or bracket expression,
\* `delete operand` emits the operand's evaluation with putOnStack=false and
\* then pushes true.
C2_DeleteEvaluatesOperand ==
  [][(/\ Emits /\ entry' = "emitGetter"
      /\ node.kind = "compiledUnaryExpr" /\ node.tok = "DELETE"
      /\ Operand(node).kind \notin ReferenceKinds
      /\ emitGetter(Operand(node), FALSE, Compiler).err = "")
     => /\ err' = ""
        /\ code' = emitGetter(Operand(node), FALSE, Compiler).code
                     \o (IF putOnStack' THEN <<loadVal(valueTrue)>> ELSE <<>>)]_vars

\* C3: compileMetaProperty returns the new.target node only for the pair
\* (new, target); every other meta property is a SyntaxError and emits
\* nothing.
C3_OnlyNewTarget ==
  (phase = "compiled" /\ ast.kind = "MetaProperty") =>
    IF ast.tok = "new" /\ ast.name = "target"
    THEN err = "" /\ node.kind = "compiledNewTarget"
    ELSE IsSyntaxError(err) /\ node = Nil /\ code = <<>>

IsDelete(e) == e.kind = "compiledUnaryExpr" /\ e.tok = "DELETE"

\* what `delete name` must leave behind, given the lookup r of name in the
\* scope chain the expression was compiled in
DeleteNameOutcome(name, r) ==
  IF scope[Len(scope)].strict
  THEN IsSyntaxError(err') /\ code' = code
  ELSE /\ err' = ""
       /\ code' = code \o
            (CASE r.b = 0 /\ r.noDynamics ->
                    <<Is("deleteGlobal", name)>> \o (IF putOnStack' THEN <<>> ELSE <<pop>>)
               [] r.b = 0 /\ ~r.noDynamics ->
                    <<Is("deleteVar", name)>> \o (IF putOnStack' THEN <<>> ELSE <<pop>>)
               [] OTHER -> IF putOnStack' THEN <<loadVal(valueFalse)>> ELSE <<>>)

\* C8: `delete name` is decided by the compiler: in strict code it is a
\* SyntaxError; with no binding and no dynamic scope on the way it emits
\* deleteGlobal; with no binding and a dynamic scope it emits deleteVar; with
\* a binding it is the constant false and no delete instruction is emitted.
C8_DeleteIdentifier ==
  [][(Emits /\ IsDelete(node) /\ Operand(node).kind = "compiledIdentifierExpr")
     => DeleteNameOutcome(Operand(node).name, lookupName(scope, Operand(node).name))]_vars

\* `delete g` emitted for its effect only where g is unbound and no scope is dynamic
C8_Witness ==
  /\ phase = "emitted" /\ err = "" /\ ~putOnStack
  /\ ast.kind = "UnaryExpression" /\ ast.tok = "DELETE" /\ ast.kids[1] = Id("g")
  /\ code = <<Is("deleteGlobal", "g"), pop>>

\* C9: a regular expression literal whose pattern or flags do not compile is
\* a SyntaxError of the compilation, whether or not its value is used.
C9_InvalidRegexpIsSyntaxError ==
  (phase = "emitted" /\ ast.kind = "RegExpLiteral" /\ ~ast.flag) => IsSyntaxError(err)

\* the code that rethrows the exception ex at run time
ThrowCode(ex) ==
  <<Is("loadDynamic", ex.name)>>
  \o (IF ex.msg # NoMessage THEN <<loadVal(newStringValue(ex.msg)), In("_new", 1)>>
                            ELSE <<In("_new", 0)>>)
  \o <<I0("throw")>>

\* folding the constant expression x raises an exception in the eval VM
Raises(x) == constant(x, Compiler).b /\ evalConst(x, Compiler).ex # NoEx

\* C10: an exception the VM raises while a constant expression is folded
\* becomes code that throws it at run time, in the place of the expression's
\* code, for both values of putOnStack, and the compilation goes on; checked
\* for the whole expression and for the operand of void.
C10_FoldExceptionBecomesCode ==
  [][Emits
     => /\ (entry' = "emitExpr" /\ Raises(node))
           => err' = "" /\ code' = ThrowCode(evalConst(node, Compiler).ex)
        /\ (entry' = "emitGetter" /\ node.kind = "compiledUnaryExpr" /\ node.tok = "VOID"
             /\ Raises(Operand(node)))
           => /\ err' = ""
              /\ code' = ThrowCode(evalConst(Operand(node), Compiler).ex)
                           \o (IF putOnStack' THEN <<loadUndef>> ELSE <<>>)]_vars

\* 1n / 0n compiled for its effect only: the RangeError is thrown at run time
C10_Witness ==
  /\ phase = "emitted" /\ entry = "emitExpr" /\ ~putOnStack /\ err = ""
  /\ ast.kind = "BinaryExpression" /\ ast.tok = "SLASH" /\ ast.kids[2] = Big(0)
  /\ Len(code) = 4 /\ code[1] = Is("loadDynamic", "RangeError") /\ code[4] = I0("throw")

(***************************************************************************)
(* Properties of object literals (SpecObj).                                *)
(***************************************************************************)
\* the properties `__proto__: value`: keyed by the literal name, not
\* computed, of kind value
ProtoFields(o) ==
  {i \in 1..Len(o.kids) :
     /\ o.kids[i].kind = "PropertyKeyed" /\ o.kids[i].tok = "value" /\ ~o.kids[i].flag
     /\ o.kids[i].kids[1].kind = "StringLiteral"
     /\ o.kids[i].kids[1].val = newStringValue(__proto__)}

\* C4: an object literal is rejected with the duplicate __proto__ SyntaxError
\* exactly when at least two of its properties are `__proto__: value`
\* (not computed, kind value); getters, setters, methods, computed keys and
\* shorthand properties named __proto__ neither trigger the error nor count.
C4_DuplicateProtoIff ==
  (phase = "emitted" /\ ast.kind = "ObjectLiteral")
    => (err = DuplicateProto <=> Cardinality(ProtoFields(ast)) >= 2)

(***************************************************************************)
(* Properties of function literals (SpecFunc).                             *)
(***************************************************************************)
\* the function literal under compilation: the literal itself or the method
FuncOf(x) == IF x.kind = "ObjectLiteral" THEN x.kids[1].kids[2] ELSE x
IsFunc == ast.kind \in FunctionKinds \/ (ast.kind = "ObjectLiteral" /\ Len(ast.kids) = 1)

\* the target of the i-th element of the parameter list, the rest included
TargetOf(pl, i) == IF pl.flag /\ i = Len(pl.kids) THEN pl.kids[i] ELSE pl.kids[i].kids[1]
\* the names a target binds
BoundNames(tgt) ==
  IF tgt.kind = "Identifier" THEN <<tgt.name>> ELSE [j \in 1..Len(tgt.kids) |-> tgt.kids[j].name]
RECURSIVE ParameterNames(_, _)
ParameterNames(pl, i) ==
  IF i > Len(pl.kids) THEN <<>> ELSE BoundNames(TargetOf(pl, i)) \o ParameterNames(pl, i + 1)

HasInitializer(item) == item.flag
IsPattern(item) == item.kids[1].kind # "Identifier"
\* the number of parameters before the first one satisfying P
Preceding(list, P(_)) ==
  Cardinality({i \in 1..Len(list) : \A j \in 1..i : ~P(list[j])})

FuncInstrs == {"newFunc", "newMethod", "newArrowFunc"}
\* the length operand of the instruction that creates the function
EmittedLengths == {code[i].n : i \in {k \in 1..Len(code) : code[k].op \in FuncInstrs}}

\* C5 as stated: length is the number of parameters preceding the first one
\* with a default initializer or a pattern target.
C5_LengthStopsAtPattern ==
  (phase = "emitted" /\ err = "" /\ IsFunc)
    => EmittedLengths = {Preceding(List(ParameterList(FuncOf(ast))),
                                   LAMBDA it : HasInitializer(it) \/ IsPattern(it))}

\* C5: the length operand of newFunc / newMethod / newArrowFunc is the number
\* of parameters preceding the first one with a default initializer; a
\* pattern target without a default counts, the rest parameter never does.
C5_FunctionLength ==
  (phase = "emitted" /\ err = "" /\ IsFunc)
    => EmittedLengths = {Preceding(List(ParameterList(FuncOf(ast))), HasInitializer)}

\* function f({a}, b) {} has length 2
C5_Witness ==
  /\ phase = "emitted" /\ err = "" /\ ast.kind = "FunctionLiteral"
  /\ Len(ParameterList(ast).kids) = 2 /\ ~ParameterList(ast).flag
  /\ IsPattern(ParameterList(ast).kids[1]) /\ ~HasInitializer(ParameterList(ast).kids[1])
  /\ ~HasInitializer(ParameterList(ast).kids[2])
  /\ EmittedLengths = {2}

\* a parameter list is simple: identifiers only, no default, no rest
IsSimple(pl) == ~pl.flag /\ \A i \in 1..Len(pl.kids) : ~HasInitializer(pl.kids[i]) /\ ~IsPattern(pl.kids[i])

\* C6: a function with its own "use strict" directive and a non-simple
\* parameter list (a pattern, a default or a rest element) is a SyntaxError,
\* also when the rest element is the only parameter.
C6_UseStrictNonSimple ==
  (phase = "emitted" /\ IsFunc /\ FuncOf(ast).flag /\ ~IsSimple(ParameterList(FuncOf(ast))))
    => IsSyntaxError(err)

\* some identifier is bound twice by the parameter list
HasRepeatedName(pl) ==
  \E i, j \in 1..Len(ParameterNames(pl, 1)) :
    i < j /\ ParameterNames(pl, 1)[i] = ParameterNames(pl, 1)[j]

\* the function is compiled as strict code: by its own directive or by the
\* scope it appears in
IsStrictFunc == FuncOf(ast).flag \/ scope[Len(scope)].strict

\* a repeated parameter name is allowed: simple list, sloppy mode, neither
\* an arrow function nor a method
RepeatAllowed ==
  /\ IsSimple(ParameterList(FuncOf(ast))) /\ ~IsStrictFunc
  /\ ast.kind = "FunctionLiteral"

IsLogical(e) == e.kind \in {"compiledLogicalOr", "compiledLogicalAnd"}
\* the left operand is constant and folds to a value, not to an exception
LeftFolds(e) ==
  /\ constant(Left(e), Compiler).b
  /\ evalConst(Left(e), Compiler).st.err = ""
  /\ evalConst(Left(e), Compiler).ex = NoEx
\* the folded left operand decides the result: truthy for ||, falsy for &&
ShortCircuits(e) ==
  ToBoolean(evalConst(Left(e), Compiler).v) = (e.kind = "compiledLogicalOr")

\* C15 as stated: constant() of || and && is true exactly when the left
\* operand is constant, whatever the right operand and the left value.
C15_ConstantIffLeftConstant ==
  (phase = "compiled" /\ IsLogical(node) /\ constant(node, Compiler).st.err = "")
    => constant(node, Compiler).b = constant(Left(node), Compiler).b

\* C15: constant() of || and && is true exactly when the left operand is
\* constant and either folding it raises an exception, or its value decides
\* the result (truthy for ||, falsy for &&), or the right operand is
\* constant too.
C15_ConstantLogical ==
  (phase = "compiled" /\ IsLogical(node) /\ constant(node, Compiler).st.err = "")
    => constant(node, Compiler).b
         = (/\ constant(Left(node), Compiler).b
            /\ \/ ~LeftFolds(node)
               \/ ShortCircuits(node)
               \/ constant(Member(node), Compiler).b)

\* 0 || a is not folded: emitExpr emits the read of a
C15_Witness ==
  /\ phase = "emitted" /\ entry = "emitExpr" /\ putOnStack /\ err = ""
  /\ node.kind = "compiledLogicalOr"
  /\ Left(node).kind = "compiledLiteral" /\ ~ToBoolean(Left(node).val)
  /\ Member(node).kind = "compiledIdentifierExpr"
  /\ code = <<Is("b.emitGet", Member(node).name)>>

\* C16: with a constant left operand that decides the result, no
\* instruction of the right operand is emitted and the value produced is
\* the folded left value; with a constant left operand that does not, the
\* code is exactly the code of the right operand (folded if constant),
\* without a jump.
C16_ConstantLeftOperand ==
  [][(Emits /\ IsLogical(node) /\ LeftFolds(node))
     => /\ err' = emitExpr(Member(node), putOnStack', Compiler).err \/ ShortCircuits(node)
        /\ IF ShortCircuits(node)
           THEN /\ err' = ""
                /\ code' \in {<<>>, <<loadVal(evalConst(Left(node), Compiler).v)>>}
                /\ putOnStack' => code' # <<>>
           ELSE code' = emitExpr(Member(node), putOnStack', Compiler).code]_vars

\* 1 || a with its value used: the code is the constant 1 alone
C16_Witness ==
  /\ phase = "emitted" /\ putOnStack /\ err = ""
  /\ node.kind = "compiledLogicalOr"
  /\ Left(node).kind = "compiledLiteral" /\ ToBoolean(Left(node).val)
  /\ Member(node).kind = "compiledIdentifierExpr"
  /\ code = <<loadVal(Left(node).val)>>

(***************************************************************************)
(* In-place updates: ++ and -- through emitUnary (Spec).                   *)
(***************************************************************************)
\* ++ or -- of an identifier, dot or bracket expression whose own operands
\* are leaves, so that every toNumber and inc of the code is its own
IsUpdate(e) ==
  /\ e.kind = "compiledUnaryExpr" /\ e.tok \in {"INCREMENT", "DECREMENT"}
  /\ Operand(e).kind \in ReferenceKinds
  /\ \A i \in 1..Len(Operand(e).kids) : Operand(e).kids[i].kids = <<>>

\* the instructions that fetch the current value of the target
FetchOps == {"b.emitGet", "b.emitGetVar", "loadDynamic", "getValue", "getProp", "getElem"}
BodyOps == {"inc", "dec"}
Positions(c, ops) == {i \in 1..Len(c) : c[i].op \in ops}

\* toNumber stands once in the code, right after the fetch and before body
PrepareAfterFetch(c) ==
  /\ Cardinality(Positions(c, {"toNumber"})) = 1
  /\ \A j \in Positions(c, {"toNumber"}) :
       /\ j - 1 \in Positions(c, FetchOps)
       /\ \E k \in Positions(c, BodyOps) : j < k

\* C17: for an identifier, dot or bracket target, the prepare code of ++ and
\* -- (toNumber) is emitted after the fetch and before body, for every
\* combination of postfix and putOnStack, putOnStack = false included.
C17_PrepareAlwaysEmitted ==
  (phase = "emitted" /\ entry = "emitGetter" /\ err = "" /\ IsUpdate(node))
    => PrepareAfterFetch(code)

(***************************************************************************)
(* Running the code of an in-place update.  The VM state is the value      *)
(* stack, the reference stack and the list of stores performed; values are *)
(* terms over the names read, so that two runs agree exactly when they      *)
(* apply the same operations to the same values in the same order.          *)
(***************************************************************************)
ValTerm(v) == "#" \o ToStr(v)
App1(op, x) == op \o "(" \o x \o ")"
App2(op, x, y) == op \o "(" \o x \o "," \o y \o ")"
PropTerm(obj, name) == obj \o "." \o name
ElemTerm(obj, key) == obj \o "[" \o key \o "]"
Store(target, v) == target \o " := " \o v

NewVM == [stk |-> <<>>, refs |-> <<>>, log |-> <<>>]
push(m, x) == [m EXCEPT !.stk = Append(@, x)]
drop(m, n) == [m EXCEPT !.stk = SubSeq(@, 1, Len(@) - n)]
peek(m, n) == m.stk[Len(m.stk) - n]
store(m, target, v) == [m EXCEPT !.log = Append(@, Store(target, v))]
invalid(m, op) == [m EXCEPT !.log = Append(@, "invalid " \o op)]

exec(m, ins) ==
  Let(Len(m.stk), LAMBDA sp :
  CASE ins.op = "loadUndef" -> push(m, "undefined")
    [] ins.op = "loadVal" -> push(m, ValTerm(ins.v))
    [] ins.op \in {"b.emitGet", "b.emitGetVar", "loadDynamic"} -> push(m, ins.s)
    [] ins.op \in {"resolveVar1", "resolveVar1Strict", "b.emitResolveVar"} ->
         [m EXCEPT !.refs = Append(@, ins.s)]
    [] ins.op = "getValue" /\ Len(m.refs) > 0 -> push(m, m.refs[Len(m.refs)])
    [] ins.op \in {"putValue", "putValueP"} /\ Len(m.refs) > 0 /\ sp > 0 ->
         Let([store(m, m.refs[Len(m.refs)], peek(m, 0))
                EXCEPT !.refs = SubSeq(@, 1, Len(@) - 1)], LAMBDA m1 :
         IF ins.op = "putValueP" THEN drop(m1, 1) ELSE m1)
    [] ins.op \in {"b.emitSet", "b.emitSetP", "setGlobal", "setGlobalStrict"} /\ sp > 0 ->
         Let(store(m, ins.s, peek(m, 0)), LAMBDA m1 :
         IF ins.op = "b.emitSetP" THEN drop(m1, 1) ELSE m1)
    [] ins.op \in {"toNumber", "inc", "dec"} /\ sp > 0 ->
         push(drop(m, 1), App1(ins.op, peek(m, 0)))
    [] ins.op \in BinaryInstrs /\ sp > 1 ->
         push(drop(m, 2), App2(ins.op, peek(m, 1), peek(m, 0)))
    [] ins.op = "dup" /\ sp > 0 -> push(m, peek(m, 0))
    [] ins.op = "dupN" /\ sp > ins.n -> push(m, peek(m, ins.n))
    [] ins.op = "rdupN" /\ sp > ins.n -> [m EXCEPT !.stk[sp - ins.n] = peek(m, 0)]
    [] ins.op = "getProp" /\ sp > 0 -> push(drop(m, 1), PropTerm(peek(m, 0), ins.s))
    [] ins.op = "getElem" /\ sp > 1 -> push(drop(m, 2), ElemTerm(peek(m, 1), peek(m, 0)))
    [] ins.op \in {"setProp", "setPropStrict"} /\ sp > 1 ->
         push(drop(store(m, PropTerm(peek(m, 1), ins.s), peek(m, 0)), 2), peek(m, 0))
    [] ins.op \in {"setElem", "setElemStrict"} /\ sp > 2 ->
         push(drop(store(m, ElemTerm(peek(m, 2), peek(m, 1)), peek(m, 0)), 3), peek(m, 0))
    [] ins.op = "pop" /\ sp > 0 -> drop(m, 1)
    [] OTHER -> invalid(m, ins.op))

RECURSIVE run(_, _, _)
run(c, pc, m) == IF pc > Len(c) THEN m ELSE run(c, pc + 1, exec(m, c[pc]))

\* the in-place updates of the model: ++ (prepare is toNumber, body is inc)
\* and += (no prepare, body is the right operand and add)
IsInPlace(e) ==
  \/ e.kind = "compiledUnaryExpr" /\ e.tok = "INCREMENT"
  \/ e.kind = "compiledAssignExpr" /\ e.tok = "PLUS" /\ Member(e).kind = "compiledLiteral"
LeafTerm(x) == IF x.kind = "compiledLiteral" THEN ValTerm(x.val) ELSE x.name
HasTerm(x) == x.kind \in {"compiledLiteral", "compiledIdentifierExpr"}
\* the target of an in-place update, its own operands being names or literals
IsTarget(t) ==
  /\ t.kind \in ReferenceKinds
  /\ \A i \in 1..Len(t.kids) : HasTerm(t.kids[i])
TargetTerm(t) ==
  CASE t.kind = "compiledIdentifierExpr" -> t.name
    [] t.kind = "compiledDotExpr" -> PropTerm(LeafTerm(Left(t)), t.name)
    [] t.kind = "compiledBracketExpr" -> ElemTerm(LeafTerm(Left(t)), LeafTerm(Member(t)))
Prepared(e, old) == IF e.kind = "compiledUnaryExpr" THEN App1("toNumber", old) ELSE old
BodyOf(e, x) ==
  IF e.kind = "compiledUnaryExpr" THEN App1("inc", x)
     ELSE App2(AssignInstr(e.tok), x, ValTerm(Member(e).val))
\* fetch old; new = body(prepare(old)); store new; leave prepare(old) if
\* postfix, new otherwise, when putOnStack, and nothing when not
Updated(e, put) ==
  Let(TargetTerm(Operand(e)), LAMBDA old :
  Let(BodyOf(e, Prepared(e, old)), LAMBDA new :
  [stk |-> IF ~put THEN <<>> ELSE IF e.flag THEN <<Prepared(e, old)>> ELSE <<new>>,
   refs |-> <<>>,
   log |-> <<Store(old, new)>>]))

\* C12: for an identifier, dot or bracket target and every combination of
\* postfix and putOnStack, running the code of emitUnary fetches the old
\* value, stores body(prepare(old)) and leaves exactly one value when
\* putOnStack (prepare(old) if postfix, the new value otherwise) and
\* nothing otherwise.
C12_EmitUnaryEquivalence ==
  (phase = "emitted" /\ entry = "emitGetter" /\ err = ""
     /\ IsInPlace(node) /\ IsTarget(Operand(node)))
    => run(code, 1, NewVM) = Updated(node, putOnStack)

(***************************************************************************)
(* Calls compiled inside nested scopes: the global scope, and inside it    *)
(* function bodies, arrow function bodies, blocks and the variable block   *)
(* of a function with complex parameters.                                  *)
(***************************************************************************)
MaxChain == 3
MaxArgs == 2

GlobalScope(strict) == NewScope(strict, FALSE, FALSE, TRUE, {"a"})
InnerScopes(strict) ==
  {NewScope(strict, TRUE, FALSE, FALSE, {}), NewScope(strict, TRUE, TRUE, FALSE, {}),
   NewScope(strict, FALSE, FALSE, FALSE, {}),
   [NewScope(strict, FALSE, FALSE, FALSE, {}) EXCEPT !.variable = TRUE]}

\* strictness is inherited inwards; a variable block lies directly inside
\* its function scope
WellNested(ch) ==
  \A i \in 2..Len(ch) :
    /\ ch[i - 1].strict => ch[i].strict
    /\ ch[i].variable => ch[i - 1].function

EvalScopes ==
  {ch \in UNION {[1..n -> {GlobalScope(st) : st \in BOOLEAN}
                           \cup UNION {InnerScopes(st) : st \in BOOLEAN}] : n \in 1..(MaxChain + 1)} :
     /\ ch[1] \in {GlobalScope(st) : st \in BOOLEAN}
     /\ \A i \in 2..Len(ch) : ch[i] \in UNION {InnerScopes(st) : st \in BOOLEAN}
     /\ WellNested(ch)}

Callees ==
  {Id("eval"), Id("a"), [Tree("DotExpression", "", FALSE, <<Id("a")>>) EXCEPT !.name = "eval"],
   Tree("SequenceExpression", "", FALSE, <<Num(0), Id("eval")>>)}
Arguments ==
  {Num(1), Leaf("ThisExpression", "", NoVal, FALSE), Tree("CallExpression", "", FALSE, <<Id("eval")>>)}

InitEval ==
  /\ ast \in {Tree("CallExpression", "", FALSE, <<c>>) : c \in Callees}
  /\ node = Nil
  /\ phase = "parse"
  /\ code = <<>>
  /\ srcMap = <<>>
  /\ err = ""
  /\ scope = <<>>
  /\ putOnStack = FALSE
  /\ entry = ""
  /\ prgs = <<>>

ParseArgument ==
  /\ phase = "parse"
  /\ Len(ast.kids) <= MaxArgs
  /\ \E arg \in Arguments : ast' = [ast EXCEPT !.kids = Append(@, arg)]
  /\ UNCHANGED <<node, phase, code, srcMap, err, scope, putOnStack, entry, prgs>>

\* c.compileExpression(v) inside the scope chain ch
CompileNested ==
  /\ phase = "parse"
  /\ \E ch \in EvalScopes : CompiledAs(compileExpression(ast, NewCompiler(ch)))

NextEval == ParseArgument \/ CompileNested \/ EmitGetter \/ EmitExpr

SpecEval == InitEval /\ [][NextEval]_vars

\* the scope chain when callee and arguments of the call have been emitted
OperandsScope(e) == emitAll(e.kids, 2, TRUE, emitCallee(e.kids[1], Compiler).st).scope
Nearest(ch, P(_)) ==
  IF \E i \in 1..Len(ch) : P(ch[i])
     THEN CHOOSE i \in 1..Len(ch) : P(ch[i]) /\ \A j \in (i + 1)..Len(ch) : ~P(ch[j])
     ELSE 0
IsFuncScope(sc) == sc.function /\ ~sc.arrow
IsVarScope(sc) == sc.variable \/ sc.function
IsDirectEval(e) == e.kids[1].kind = "compiledIdentifierExpr" /\ e.kids[1].name = "eval"

\* C14: a call whose callee is the identifier eval sets dynLookup on every
\* scope of the chain, thisNeeded and argsNeeded on the nearest non-arrow
\* function scope and on no other, and dynamic on the nearest
\* variable-or-function scope if that scope is not strict and on none
\* further out; a call with any other callee changes no scope flag.
C14_DirectEvalMarksScopes ==
  [][(Emits /\ node.kind = "compiledCallExpr" /\ err' = "")
     => Let(OperandsScope(node), LAMBDA pre :
        IF IsDirectEval(node)
        THEN /\ Len(scope') = Len(pre)
             /\ \A i \in 1..Len(pre) :
                  scope'[i] =
                    [pre[i] EXCEPT
                       !.dynLookup = TRUE,
                       !.thisNeeded = @ \/ i = Nearest(pre, IsFuncScope),
                       !.argsNeeded = @ \/ i = Nearest(pre, IsFuncScope),
                       !.dynamic = @ \/ (i = Nearest(pre, IsVarScope) /\ ~pre[i].strict)]
        ELSE scope' = pre)]_vars

\* eval() in a block of an arrow function of a non-strict function: the
\* function gets this and arguments, the arrow function becomes dynamic
C14_Witness ==
  /\ phase = "emitted" /\ err = ""
  /\ node.kind = "compiledCallExpr" /\ IsDirectEval(node) /\ Len(node.kids) = 1
  /\ Len(scope) = 4
  /\ scope[2].function /\ ~scope[2].arrow /\ scope[2].thisNeeded /\ scope[2].argsNeeded
  /\ ~scope[2].dynamic /\ ~scope[2].strict
  /\ scope[3].arrow /\ scope[3].dynamic /\ ~scope[3].thisNeeded
  /\ ~scope[4].function /\ ~scope[4].dynamic /\ scope[4].dynLookup

(***************************************************************************)
(* Source maps.                                                            *)
(***************************************************************************)
\* the entries are in non-decreasing pc order
Monotone(map) == \A i \in 1..Len(map) : \A j \in i..Len(map) : map[i].pc <= map[j].pc

\* C13: in every Program the compiler appends to, the source map entries are
\* in non-decreasing pc order, also after evalConst has truncated the code
\* of the Program of a constant evaluation on a nested evaluation, and
\* after the preamble of a function has been sliced off.
C13_SrcMapMonotone ==
  /\ Monotone(srcMap)
  /\ \A i \in 1..Len(prgs) : Monotone(prgs[i].srcMap)

(***************************************************************************)
(* Function literals with a body, inside a function of a script: the       *)
(* parser appends the formal parameters, each an identifier with or        *)
(* without an initializer, and then the statements of the body.            *)
(***************************************************************************)
MaxFormals == 3
MaxBody == 2

FunctionBody(kind, name, useStrict) ==
  Node(kind, "", name, NoVal, useStrict, <<>>,
       <<Node("ParameterList", "", "", NoVal, FALSE, <<>>, <<>>, 1),
         Tree("Body", "", FALSE, <<>>)>>, 1)

CallEval == Tree("CallExpression", "", FALSE, <<Id("eval")>>)
FormalTargets == {Id("a"), Id("b"), ObjectPattern(<<Id("c")>>)}
\* no initializer, = 1, = b, = eval()
Initializers == {Nil, Num(1), Id("b"), CallEval}
Statements ==
  {Tree("ReturnStatement", "", FALSE, <<Leaf("ThisExpression", "", NoVal, FALSE)>>),
   Tree("ExpressionStatement", "", FALSE, <<Id("arguments")>>),
   Tree("ReturnStatement", "", FALSE, <<Id("f")>>),
   Tree("ExpressionStatement", "", FALSE, <<CallEval>>)}

OuterScopes == {<<GlobalScope(FALSE), NewScope(FALSE, TRUE, FALSE, FALSE, {})>>}

InitBody ==
  /\ ast \in {FunctionBody("FunctionLiteral", n, u) : n \in {"", "f"}, u \in BOOLEAN}
               \cup {FunctionBody("ArrowFunctionLiteral", "", FALSE)}
  /\ node = Nil
  /\ phase = "parse"
  /\ code = <<>>
  /\ srcMap = <<>>
  /\ err = ""
  /\ scope = <<>>
  /\ putOnStack = FALSE
  /\ entry = ""
  /\ prgs = <<>>

ParseFormal ==
  /\ phase = "parse"
  /\ Body(ast) = <<>>
  /\ Len(ParameterList(ast).kids) < MaxFormals
  /\ \E tgt \in FormalTargets, ini \in Initializers :
       LET i == Len(ParameterList(ast).kids) + 1
           item == Node("Binding", "", "", NoVal, ini # Nil, <<>>,
                        IF ini # Nil THEN <<At(tgt, i), ini>> ELSE <<At(tgt, i)>>, 10 * i)
       IN ast' = [ast EXCEPT !.kids[1].kids = Append(@, item)]
  /\ UNCHANGED <<node, phase, code, srcMap, err, scope, putOnStack, entry, prgs>>

ParseStatement ==
  /\ phase = "parse"
  /\ Len(Body(ast)) < MaxBody
  /\ \E stmt \in Statements : ast' = [ast EXCEPT !.kids[2].kids = Append(@, stmt)]
  /\ UNCHANGED <<node, phase, code, srcMap, err, scope, putOnStack, entry, prgs>>

\* the Program of the outer function holds the places of its preamble when
\* its body is compiled
OuterCompiler(ch) == [NewCompiler(ch) EXCEPT !.code = <<nilInstr, nilInstr, nilInstr, nilInstr>>]

\* c.compileExpression(v) in the body of the outer function
CompileLiteral ==
  /\ phase = "parse"
  /\ \E ch \in OuterScopes : CompiledAs(compileExpression(ast, OuterCompiler(ch)))

NextBody == ParseFormal \/ ParseStatement \/ CompileLiteral \/ EmitGetter

SpecBody == InitBody /\ [][NextBody]_vars

(***************************************************************************)
(* Duplicate parameters                                                    *)
(***************************************************************************)
\* the parameters that repeat the name of an earlier parameter
Repeats(list) ==
  {i \in 1..Len(list) :
     /\ list[i].kids[1].kind = "Identifier"
     /\ \E j \in 1..(i - 1) : list[j].kids[1] = [list[i].kids[1] EXCEPT !.offset = list[j].kids[1].offset]}

FirstRepeat(list) == CHOOSE i \in Repeats(list) : \A j \in Repeats(list) : i <= j

\* the error of the parameter loop: a pattern that binds a name twice is
\* rejected later, where the bindings of the patterns are created
RaisesDuplicate ==
  /\ Emits
  /\ node.kind = "compiledFunctionLiteral"
  /\ Repeats(ParameterList(ast).kids) # {}
  /\ err' = DuplicateParameter

\* C18: when the parameter loop raises the duplicate-parameter SyntaxError,
\* the offset it reports is that of the first repeated occurrence in the
\* list, also when several parameters repeat a name before the parameter
\* that makes the condition true.
C18_FirstRepeatedOffset ==
  [][RaisesDuplicate =>
       emitGetter(node, putOnStack', Compiler).errAt
         = ParameterList(ast).kids[FirstRepeat(ParameterList(ast).kids)].kids[1].offset]_vars

(***************************************************************************)
(* The frame of a function literal                                         *)
(***************************************************************************)
EmitsFunction ==
  /\ Emits
  /\ node.kind = "compiledFunctionLiteral"
  /\ entry' = "emitGetter"
  /\ err' = ""

\* the scope at a position of the chain is the scope that was there before
SameScope(s, t) ==
  /\ s.function = t.function
  /\ s.arrow = t.arrow
  /\ s.variable = t.variable
  /\ s.dynamic = t.dynamic
  /\ s.strict = t.strict

NewOp(e) == IF isArrow(e) THEN "newArrowFunc" ELSE IF isMethod(e) THEN "newMethod" ELSE "newFunc"

\* C11: after emitGetter of a function or arrow literal returns normally,
\* the current scope is the scope it was before the call (the function
\* scope and, with complex parameters, the variable block scope have been
\* popped), the lexical block is restored, and the current Program is the
\* outer Program again, with exactly one newFunc / newMethod / newArrowFunc
\* appended, and one pop after it when putOnStack is false.
C11_FunctionLiteralFrame ==
  [][EmitsFunction =>
       /\ Len(scope') = Len(scope)
       /\ \A i \in 1..Len(scope) : SameScope(scope'[i], scope[i])
       /\ emitGetter(node, putOnStack', Compiler).block = Compiler.block
       /\ Len(code') = Len(code) + (IF putOnStack' THEN 1 ELSE 2)
       /\ SubSeq(code', 1, Len(code)) = code
       /\ code'[Len(code) + 1].op = NewOp(node)
       /\ ~putOnStack' => code'[Len(code')] = pop
       /\ Len(prgs') = Len(prgs) + 1
       /\ prgs'[Len(prgs')].kind = "func"]_vars

\* function f(a = 1) { ... } as an expression statement of the outer
\* function: the Program of f ends in two scopes, the outer Program has its
\* four places, newFunc and pop, and the chain is the outer chain
C11_Witness ==
  /\ phase = "emitted"
  /\ entry = "emitGetter"
  /\ err = ""
  /\ ~putOnStack
  /\ node.kind = "compiledFunctionLiteral"
  /\ Len(prgs) = 1
  /\ Len(prgs[1].scope) = 2
  /\ prgs[1].scope[2].variable
  /\ Len(scope) = 2
  /\ Len(code) = 6
  /\ code[5].op = "newFunc"
  /\ code[6] = pop

(***************************************************************************)
(* The preamble of a finished function                                     *)
(***************************************************************************)
EnterOps == {"enterFunc", "enterFunc1", "enterFuncStashless"}
CreateArgsOps == {"createArgsMapped", "createArgsUnmapped"}
PreambleOps == EnterOps \cup CreateArgsOps \cup {"boxThis", "storeStashP", "nil"}

\* the Program of the function literal and its function scope
Func == prgs[Len(prgs)]
FuncScope == Func.scope[1]

FunctionFinished ==
  /\ phase = "emitted"
  /\ entry = "emitGetter"
  /\ err = ""
  /\ node.kind = "compiledFunctionLiteral"

BoxThisNeeded == ~FuncScope.strict /\ FuncScope.thisNeeded
ArgumentsBound == FuncScope.argsNeeded
SelfNameElided == node.name # "" /\ node.name \notin FuncScope.names

\* the places of the preamble that are in use, behind the enter instruction
PrefixLen == 1 + (IF BoxThisNeeded THEN 1 ELSE 0) + (IF ArgumentsBound THEN 2 ELSE 0)

Ops(c) == [i \in 1..Len(c) |-> c[i].op]
Occurrences(c, op) == Cardinality({i \in 1..Len(c) : c[i].op = op})

\* C19: a finished function's code starts with one enter instruction, then
\* boxThis iff the scope is non-strict and thisNeeded, then createArgsMapped
\* or createArgsUnmapped and storeStashP(0) iff the arguments object is
\* bound, and nothing else before the code of the parameters and the body;
\* when the binding of the function's own name is elided, loadCallee and
\* the init of that binding are gone, and when it is kept they follow the
\* preamble (simple parameters) and occur once.
C19_Preamble ==
  FunctionFinished =>
    /\ Len(Func.code) >= PrefixLen
    /\ Func.code[1].op \in EnterOps
    /\ BoxThisNeeded => Func.code[2] = I0("boxThis")
    /\ ArgumentsBound =>
         /\ Func.code[PrefixLen - 1].op \in CreateArgsOps
         /\ Func.code[PrefixLen - 1].n = Len(ParameterList(node).kids)
         /\ Func.code[PrefixLen] = In("storeStashP", 0)
    /\ \A i \in (PrefixLen + 1)..Len(Func.code) : Func.code[i].op \notin PreambleOps
    /\ IF node.name = "" \/ SelfNameElided
          THEN Occurrences(Func.code, "loadCallee") = 0
          ELSE /\ Occurrences(Func.code, "loadCallee") = 1
               /\ Func.code[PrefixLen + 1] = I0("loadCallee")
               /\ Func.code[PrefixLen + 2].op = "b.emitInit"
               /\ Func.code[PrefixLen + 2].s = node.name

\* function f(a) { return this; arguments } : f is elided, and createArgs
\* and storeStashP take the places of loadCallee and the init of f
C19_Witness ==
  /\ FunctionFinished
  /\ ArgumentsBound
  /\ BoxThisNeeded
  /\ SelfNameElided
  /\ Ops(SubSeq(Func.code, 1, 4)) = <<"enterFunc", "boxThis", "createArgsMapped", "storeStashP">>

(***************************************************************************)
(* Forward references among the parameters                                 *)
(***************************************************************************)
Formals == ParameterList(node).kids
IsComplex == \E i \in 1..Len(Formals) : Formals[i].flag \/ Formals[i].kids[1].kind # "Identifier"

RECURSIVE Mentions(_, _)
Mentions(x, name) ==
  \/ x.kind = "Identifier" /\ x.name = name
  \/ \E j \in 1..Len(x.kids) : Mentions(x.kids[j], name)

\* the initializers of the parameters up to i, the own one included
InitializersUpTo(i) == {Formals[j].kids[2] : j \in {m \in 1..i : Formals[m].flag}}

\* the binding of parameter i has been used when its initialisation is reached
UsedBefore(i) == \E x \in InitializersUpTo(i) : Mentions(x, Formals[i].kids[1].name)

\* the function scope is dynamic when the initialisation of parameter i is
\* reached: an initializer up to i calls eval
DynamicBefore(i) == \E x \in InitializersUpTo(i) : Mentions(x, "eval")

Least(S) == IF S = {} THEN -1 ELSE (CHOOSE i \in S : \A j \in S : i <= j) - 1

IdentifierFormals == {i \in 1..Len(Formals) : Formals[i].kids[1].kind = "Identifier"}

\* the index, counted from 0, of the first identifier parameter used before
\* its initialisation, -1 if there is none
FirstUsed == Least({i \in IdentifierFormals : UsedBefore(i)})

\* the same, when a parameter with an initializer in a dynamic scope counts as used
FirstForwardRef ==
  Least({i \in IdentifierFormals : UsedBefore(i) \/ (Formals[i].flag /\ DynamicBefore(i))})

Occurrences2(c, ins) == Cardinality({i \in 1..Len(c) : c[i] = ins})

ComplexFinished == FunctionFinished /\ IsComplex

AdjustStack == \E i \in 1..Len(Func.code) : Func.code[i] = In("enterFuncBody", 1)

\* what a forward reference at parameter k brings about
ForwardLayout(k) ==
  /\ Func.code[1] = In("enterFunc1", k)
  /\ AdjustStack
  /\ \A i \in 0..(Len(Formals) - 1) :
       Occurrences2(Func.code, loadStackLex(-i - 1)) = (IF i >= k THEN 1 ELSE 0)
  /\ FuncScope.argsInStash
  /\ FuncScope.needStash
  /\ \A b \in 1..Len(FuncScope.bindings) :
       FuncScope.bindings[b].name # "arguments" => FuncScope.bindings[b].inStash

NoForwardLayout ==
  /\ Func.code[1].op # "enterFunc1"
  /\ ~AdjustStack
  /\ Occurrences(Func.code, "loadStackLex") = 0

\* C20 as stated: firstForwardRef is the index k of the first identifier
\* parameter whose binding has been used when its initialisation is
\* reached; then the parameters from k on are read with loadStackLex, the
\* bindings are in the stash, enter is enterFunc1 with argsToCopy = k and
\* enterFuncBody adjusts the stack; with no such parameter none of this
\* happens.
C20_ForwardRefIffUsed ==
  ComplexFinished =>
    IF FirstUsed # -1 THEN ForwardLayout(FirstUsed)
       ELSE /\ NoForwardLayout
            /\ ~FuncScope.argsInStash
            /\ ~FuncScope.needStash
            /\ \A b \in 1..Len(FuncScope.bindings) : ~FuncScope.bindings[b].inStash

\* C20: firstForwardRef is set once, to the index k of the first identifier
\* parameter whose binding has been used, or which has an initializer and a
\* dynamic function scope, when its initialisation is reached; then the
\* parameters from k on are read with loadStackLex, the bindings are in the
\* stash, enter is enterFunc1 with argsToCopy = k and enterFuncBody adjusts
\* the stack; with no such parameter there is no loadStackLex, no enterFunc1
\* and no adjustStack, and the arguments are in the stash only if the
\* arguments object is needed or the scope is dynamic.
C20_ForwardRef ==
  ComplexFinished =>
    IF FirstForwardRef # -1 THEN ForwardLayout(FirstForwardRef)
       ELSE /\ NoForwardLayout
            /\ FuncScope.argsInStash <=> (FuncScope.argsNeeded \/ isDynamic(FuncScope))

\* function (a = b, b, {c}) {} : b is used before its turn, b and the
\* pattern are read from the stack
C20_Witness ==
  /\ ComplexFinished
  /\ Len(Formals) = 3
  /\ FirstForwardRef = 1
  /\ Formals[3].kids[1].kind = "ObjectPattern"
  /\ Occurrences2(Func.code, loadStackLex(-3)) = 1
  /\ Func.code[1] = In("enterFunc1", 1)

(***************************************************************************)
(* The Programs around a constant evaluation                               *)
(***************************************************************************)
\* a constant expression that is not a literal: evalConst runs the VM
Folded(e) == e.kind # "compiledLiteral" /\ constant(e, Compiler).b

\* the compiler in the middle of the evaluation of the binary expression e,
\* when the left operand is emitted and the right one is about to be
InFold(e) == emitExpr(Left(e), TRUE, [Compiler EXCEPT !.evalOn = TRUE])

NestedFold(e) ==
  /\ e.kind = "compiledBinaryExpr"
  /\ Folded(e)
  /\ Folded(Member(e))
  /\ InFold(e).err = ""

\* the current Program and its code are what they were: the outer Program
\* after a fold that created the Program of the VM, which has none then, and
\* the Program of the VM after a fold inside another
Restored(r, st) ==
  r.st.err = "" =>
    /\ r.st.evalOn = st.evalOn
    /\ CurCode(r.st) = CurCode(st)
    /\ r.st.code = st.code
    /\ ~st.evalOn => r.st.ecode = <<>>

\* C21: after evalConst returns, with a value or with an exception, from the
\* outermost evaluation or from one inside another, the current Program is
\* the Program it was before the call and its code is as long as before;
\* the VM has no Program after the outermost evaluation, and it still has
\* the Program of the outer evaluation after an evaluation inside it.
C21_EvalConstRestoresProgram ==
  (phase = "compiled" /\ err = "")
    => /\ Folded(node) => Restored(evalConst(node, Compiler), Compiler)
       /\ NestedFold(node) => Restored(evalConst(Member(node), InFold(node)), InFold(node))

\* 0 + (1n + 1): the evaluation of the right operand, inside the evaluation
\* of the sum, ends with a TypeError and leaves the code of the left operand
C21_Witness ==
  /\ phase = "compiled"
  /\ err = ""
  /\ NestedFold(node)
  /\ Len(InFold(node).ecode) = 1
  /\ evalConst(Member(node), InFold(node)).ex # NoEx
  /\ evalConst(Member(node), InFold(node)).st.ecode = InFold(node).ecode

(***************************************************************************)
(* Assignment to an identifier                                             *)
(***************************************************************************)
AssignsIdentifier ==
  /\ Emits
  /\ entry' = "emitGetter"
  /\ node.kind = "compiledAssignExpr"
  /\ node.tok = "ASSIGN"
  /\ Left(node).kind = "compiledIdentifierExpr"

\* the code of the value, as emitExpr(valueExpr, true) emits it
ValueCode == emitExpr(Member(node), TRUE, Compiler).code

Found == lookupName(scope, Left(node).name)
Strict == scope[Len(scope)].strict
IllegalName == Strict /\ Left(node).name \in {"eval", "arguments"}

\* value, then the binding's set or setGlobal / setGlobalStrict
StoreCode(put) ==
  IF Found.b # 0
     THEN <<Is(IF put THEN "b.emitSet" ELSE "b.emitSetP", Left(node).name)>>
     ELSE <<Is(IF Strict THEN "setGlobalStrict" ELSE "setGlobal", Left(node).name)>>
            \o (IF put THEN <<>> ELSE <<pop>>)

\* the reference: the binding's resolve or resolveVar1 / resolveVar1Strict
ResolveCode ==
  IF Found.b # 0
     THEN <<Instr("b.emitResolveVar", IF Strict THEN 1 ELSE 0, Left(node).name, NoVal)>>
     ELSE <<Is(IF Strict THEN "resolveVar1Strict" ELSE "resolveVar1", Left(node).name)>>

\* C22: an assignment to an identifier emits, when the lookup reports
\* noDynamics, the code of the value and then the store (the binding's set,
\* or setGlobal / setGlobalStrict by the strictness of the current scope when
\* there is no binding); when the lookup is dynamic, the resolution of the
\* reference (the binding's resolve, or resolveVar1 / resolveVar1Strict),
\* then the code of the value, then putValue when putOnStack and putValueP
\* otherwise; in a strict scope the check of the name comes before any code.
C22_AssignmentOrder ==
  [][AssignsIdentifier =>
       /\ IllegalName => (err' # "" /\ code' = code)
       /\ err' = "" =>
            code' = IF Found.noDynamics
                       THEN code \o ValueCode \o StoreCode(putOnStack')
                       ELSE code \o ResolveCode \o ValueCode
                              \o <<I0(IF putOnStack' THEN "putValue" ELSE "putValueP")>>]_vars

\* a = g inside a with block: resolve a, load g, putValue
C22_Witness ==
  /\ phase = "emitted"
  /\ entry = "emitGetter"
  /\ err = ""
  /\ putOnStack
  /\ node.kind = "compiledAssignExpr"
  /\ node.tok = "ASSIGN"
  /\ Left(node).kind = "compiledIdentifierExpr"
  /\ Len(code) = 3
  /\ code[1].op = "b.emitResolveVar"
  /\ code[3] = I0("putValue")

(***************************************************************************)
(* `this` in nested scopes: the compiler enters functions, arrow           *)
(* functions, blocks and eval code, and compiles `this` there.             *)
(***************************************************************************)
MaxNest == 3

EvalScope == [NewScope(FALSE, FALSE, FALSE, TRUE, {}) EXCEPT !.eval = TRUE]

\* a function, an arrow function, a block, the code of a direct eval
NestedScopes ==
  {NewScope(FALSE, TRUE, FALSE, FALSE, {}), NewScope(FALSE, TRUE, TRUE, FALSE, {}),
   NewScope(FALSE, FALSE, FALSE, FALSE, {}), EvalScope}

InitThis ==
  /\ ast = Leaf("ThisExpression", "", NoVal, FALSE)
  /\ node = Nil
  /\ phase = "parse"
  /\ code = <<>>
  /\ srcMap = <<>>
  /\ err = ""
  /\ scope \in {<<GlobalScope(FALSE)>>, <<EvalScope>>}
  /\ putOnStack = FALSE
  /\ entry = ""
  /\ prgs = <<>>

\* the compiler enters a nested scope before it reaches the expression
EnterScope ==
  /\ phase = "parse"
  /\ Len(scope) <= MaxNest
  /\ \E sc \in NestedScopes : scope' = Append(scope, sc)
  /\ UNCHANGED <<ast, node, phase, code, srcMap, err, putOnStack, entry, prgs>>

\* c.compileExpression(v) in the current scope
CompileThis ==
  /\ phase = "parse"
  /\ CompiledAs(compileExpression(ast, NewCompiler(scope)))

NextThis == EnterScope \/ CompileThis \/ EmitGetter

SpecThis == InitThis /\ [][NextThis]_vars

\* a scope `this` belongs to: a function that is not an arrow function, or
\* the code of an eval
HoldsThis(sc) == (sc.function /\ ~sc.arrow) \/ sc.eval

EmitsThis ==
  /\ Emits
  /\ entry' = "emitGetter"
  /\ node.kind = "compiledThisExpr"
  /\ putOnStack'

\* C23: `this` emitted with putOnStack sets thisNeeded on exactly one scope,
\* the nearest one from the current scope outwards that is a non-arrow
\* function scope or an eval scope, and emits loadStack(0); with no such
\* scope it emits loadGlobalObject and sets thisNeeded nowhere; an arrow
\* scope is never marked.
C23_ThisMarksNearestFunction ==
  [][EmitsThis =>
       /\ err' = ""
       /\ Len(scope') = Len(scope)
       /\ IF Nearest(scope, HoldsThis) # 0
             THEN /\ code' = code \o <<In("loadStack", 0)>>
                  /\ scope' = [scope EXCEPT ![Nearest(scope, HoldsThis)].thisNeeded = TRUE]
             ELSE /\ code' = code \o <<I0("loadGlobalObject")>>
                  /\ scope' = scope
       /\ \A i \in 1..Len(scope) : scope[i].arrow => ~scope'[i].thisNeeded]_vars

\* this in a block in an arrow function in a function: the function is marked
C23_Witness ==
  /\ phase = "emitted"
  /\ err = ""
  /\ putOnStack
  /\ Len(scope) = 4
  /\ scope[2].function /\ ~scope[2].arrow /\ scope[2].thisNeeded
  /\ scope[3].arrow /\ ~scope[3].thisNeeded
  /\ ~scope[4].function /\ ~scope[4].eval /\ ~scope[4].thisNeeded
  /\ code = <<In("loadStack", 0)>>

(***************************************************************************)
(* Template literals: the parser reads the first element and then, one     *)
(* after the other, a substitution and the element that follows it.        *)
(***************************************************************************)
MaxElements == 4

TemplateTexts == {"", "s"}
Substitutions ==
  {Id("a"), Num(1), Tree("ConditionalExpression", "", FALSE, <<Id("a"), Num(1), Id("g")>>)}

InitTemplate ==
  /\ ast \in {[Tree("TemplateLiteral", "", FALSE, <<>>) EXCEPT !.strs = t] :
                t \in {<<>>} \cup {<<x>> : x \in TemplateTexts}}
  /\ node = Nil
  /\ phase = "parse"
  /\ code = <<>>
  /\ srcMap = <<>>
  /\ err = ""
  /\ scope = <<>>
  /\ putOnStack = FALSE
  /\ entry = ""
  /\ prgs = <<>>

ParseSubstitution ==
  /\ phase = "parse"
  /\ Len(ast.strs) >= 1
  /\ Len(ast.strs) < MaxElements
  /\ \E x \in Substitutions, t \in TemplateTexts :
       ast' = [ast EXCEPT !.kids = Append(@, x), !.strs = Append(@, t)]
  /\ UNCHANGED <<node, phase, code, srcMap, err, scope, putOnStack, entry, prgs>>

NextTemplate == ParseSubstitution \/ CompileExpression \/ EmitGetter \/ EmitExpr

SpecTemplate == InitTemplate /\ [][NextTemplate]_vars

EmitsTemplate ==
  /\ Emits
  /\ entry' = "emitGetter"
  /\ node.kind = "compiledTemplateLiteral"
  /\ ~node.flag
  /\ err' = ""

NonEmpty(strs) == Cardinality({i \in 1..Len(strs) : strs[i] # ""})

TextCode(t) == IF t # "" THEN <<loadVal(newStringValue(t))>> ELSE <<>>

\* the text of element i, then expression i coerced to a string
RECURSIVE PartsCode(_, _)
PartsCode(e, i) ==
  IF i >= Len(e.strs) THEN <<>>
  ELSE TextCode(e.strs[i]) \o emitGetter(e.kids[i], TRUE, NewCompiler(scope)).code
         \o <<I0("_toString")>> \o PartsCode(e, i + 1)

\* what is emitted before concatStrings
PushCode(e) == PartsCode(e, 1) \o TextCode(e.strs[Len(e.strs)])

Popped(put) == IF put THEN <<>> ELSE <<pop>>

\* C24: for an untagged template literal with k >= 2 elements the operand of
\* the final concatStrings is the number of elements with a non-empty text
\* plus k - 1, which is the number of values the code before it pushes, and
\* every expression is followed by _toString; with no element only the
\* empty string is pushed, with one element only its text, and there is no
\* concatStrings.
C24_ConcatStringsCount ==
  [][EmitsTemplate =>
       /\ code' = code \o
            (IF Len(node.strs) = 0 THEN <<loadVal(newStringValue(""))>>
             ELSE IF Len(node.strs) = 1 THEN <<loadVal(newStringValue(node.strs[1]))>>
             ELSE PushCode(node)
                    \o <<In("concatStrings", NonEmpty(node.strs) + (Len(node.strs) - 1))>>)
            \o Popped(putOnStack')
       /\ Len(node.strs) >= 2
            => NetEffects(PushCode(node), 0) = {NonEmpty(node.strs) + (Len(node.strs) - 1)}]_vars

\* `s${a}${1}s`: two texts and two expressions, concatStrings(4)
C24_Witness ==
  /\ phase = "emitted"
  /\ entry = "emitGetter"
  /\ err = ""
  /\ putOnStack
  /\ node.kind = "compiledTemplateLiteral"
  /\ node.strs = <<"s", "", "s">>
  /\ Len(code) = 7
  /\ code[7] = In("concatStrings", 4)

(***************************************************************************)
(* Array patterns, as the target of an assignment and as the target of a   *)
(* parameter: the parser appends elements and the rest element, and a      *)
(* pattern read so far becomes the first element, or the rest element, of  *)
(* an enclosing pattern.                                                   *)
(***************************************************************************)
MaxPattern == 3
MaxNesting == 2

ArrayPattern(elts, rest) ==
  Tree("ArrayPattern", "", rest # Nil, IF rest # Nil THEN Append(elts, rest) ELSE elts)

Default(tgt) == Tree("AssignExpression", "ASSIGN", FALSE, <<tgt, Num(1)>>)

ElementTargets ==
  {Nil, Id("a"), Id("b"), Default(Id("b")),
   [Tree("DotExpression", "", FALSE, <<Id("o")>>) EXCEPT !.name = "p"]}

\* the pattern of the assignment or of the parameter
IsAssignment == ast.kind = "AssignExpression"
ThePattern == IF IsAssignment THEN ast.kids[1] ELSE ParameterList(ast).kids[1].kids[1]
WithPattern(p) ==
  IF IsAssignment THEN [ast EXCEPT !.kids[1] = p] ELSE [ast EXCEPT !.kids[1].kids[1].kids[1] = p]

\* what an element assigns to
ElementTarget(elt) == IF elt.kind = "AssignExpression" THEN elt.kids[1] ELSE elt

Greatest(S) == CHOOSE n \in S : \A m \in S : m <= n
RECURSIVE Total(_)
Total(ns) == IF ns = <<>> THEN 0 ELSE ns[1] + Total(Tail(ns))

RECURSIVE Nesting(_)
Nesting(p) ==
  IF p.kind # "ArrayPattern" THEN 0
  ELSE 1 + Greatest({0} \cup {Nesting(ElementTarget(p.kids[i])) : i \in 1..Len(p.kids)})

InitPattern ==
  /\ ast \in {Tree("AssignExpression", "ASSIGN", FALSE, <<ArrayPattern(<<>>, Nil), Id("x")>>),
              [Function("FunctionLiteral", FALSE) EXCEPT
                 !.kids[1].kids = <<Node("Binding", "", "", NoVal, FALSE, <<>>,
                                         <<ArrayPattern(<<>>, Nil)>>, 10)>>]}
  /\ node = Nil
  /\ phase = "parse"
  /\ code = <<>>
  /\ srcMap = <<>>
  /\ err = ""
  /\ scope = <<>>
  /\ putOnStack = FALSE
  /\ entry = ""
  /\ prgs = <<>>

ParseElement ==
  /\ phase = "parse"
  /\ ~ThePattern.flag
  /\ Len(ThePattern.kids) < MaxPattern
  /\ \E elt \in ElementTargets :
       /\ elt.kind = "DotExpression" => IsAssignment
       /\ ast' = WithPattern([ThePattern EXCEPT !.kids = Append(@, elt)])
  /\ UNCHANGED <<node, phase, code, srcMap, err, scope, putOnStack, entry, prgs>>

ParseRestElement ==
  /\ phase = "parse"
  /\ ~ThePattern.flag
  /\ ast' = WithPattern(ArrayPattern(ThePattern.kids, Id("r")))
  /\ UNCHANGED <<node, phase, code, srcMap, err, scope, putOnStack, entry, prgs>>

ParseEnclosing ==
  /\ phase = "parse"
  /\ Nesting(ThePattern) < MaxNesting
  /\ \/ ast' = WithPattern(ArrayPattern(<<ThePattern>>, Nil))
     \/ ast' = WithPattern(ArrayPattern(<<Default(ThePattern)>>, Nil))
     \/ ast' = WithPattern(ArrayPattern(<<>>, ThePattern))
  /\ UNCHANGED <<node, phase, code, srcMap, err, scope, putOnStack, entry, prgs>>

NextPattern ==
  \/ ParseElement \/ ParseRestElement \/ ParseEnclosing
  \/ CompileExpression \/ EmitGetter

SpecPattern == InitPattern /\ [][NextPattern]_vars

\* the code the pattern was emitted into
PatternCode == IF IsAssignment THEN code ELSE Func.code

IterOps == {"iterate", "iterGetNextOrUndef", "newArrayFromIter", "enumPopClose"}
IsIterOp(op) == op \in IterOps
IterCode == SelectSeq(Ops(PatternCode), IsIterOp)

\* the iterator instructions a pattern asks for, in source order
RECURSIVE Skeleton(_)
RECURSIVE ElementsSkeleton(_, _)
TargetSkeleton(tgt) == IF tgt.kind = "ArrayPattern" THEN Skeleton(tgt) ELSE <<>>
ElementsSkeleton(elts, i) ==
  IF i > Len(elts) THEN <<>>
  ELSE <<"iterGetNextOrUndef">> \o TargetSkeleton(ElementTarget(elts[i]))
         \o ElementsSkeleton(elts, i + 1)
Skeleton(p) ==
  <<"iterate">> \o ElementsSkeleton(Elements(p), 1)
    \o (IF PatternRest(p) # Nil
           THEN <<"newArrayFromIter">> \o TargetSkeleton(PatternRest(p))
           ELSE <<"enumPopClose">>)

\* the elisions of a pattern and of the patterns inside it
RECURSIVE Elisions(_)
Elisions(p) ==
  IF p.kind # "ArrayPattern" THEN 0
  ELSE Cardinality({i \in 1..Len(p.kids) : p.kids[i] = Nil})
         + Total([i \in 1..Len(p.kids) |-> Elisions(ElementTarget(p.kids[i]))])

\* iterGetNextOrUndef directly followed by pop
Drained(c) ==
  Cardinality({i \in 1..(Len(c) - 1) : c[i].op = "iterGetNextOrUndef" /\ c[i + 1] = pop})

\* the iterations open after the first n iterator instructions
RECURSIVE Open(_, _)
Open(ops, n) ==
  IF n = 0 THEN 0
  ELSE Open(ops, n - 1) + (IF ops[n] = "iterate" THEN 1
                           ELSE IF ops[n] = "iterGetNextOrUndef" THEN 0 ELSE -1)

PatternEmitted == phase = "emitted" /\ err = ""

\* C25: the code of an array pattern has one iterate and one instruction
\* that ends the iteration, newArrayFromIter when the pattern has a rest
\* element and enumPopClose when it has none; it has one iterGetNextOrUndef
\* for each element, followed by pop for an elision; the iterations of
\* patterns inside a pattern are opened and ended inside it or after it,
\* never interleaved.
C25_ArrayPatternIteration ==
  PatternEmitted =>
    /\ IterCode = Skeleton(ThePattern)
    /\ Drained(PatternCode) = Elisions(ThePattern)
    /\ \A n \in 0..Len(IterCode) : Open(IterCode, n) >= 0
    /\ Open(IterCode, Len(IterCode)) = 0
    /\ \A n \in 1..Len(IterCode) :
         IterCode[n] = "iterGetNextOrUndef" => Open(IterCode, n) >= 1

\* [[a], , ...r] = x
C25_Witness ==
  /\ PatternEmitted
  /\ IsAssignment
  /\ ThePattern = ArrayPattern(<<ArrayPattern(<<Id("a")>>, Nil), Nil>>, Id("r"))
  /\ IterCode = <<"iterate", "iterGetNextOrUndef", "iterate", "iterGetNextOrUndef",
                  "enumPopClose", "iterGetNextOrUndef", "newArrayFromIter">>
  /\ Drained(code) = 1

(***************************************************************************)
(* A formal parameter named `arguments`: the parser appends formals named  *)
(* `arguments` or `a`, with or without an initializer, and then the        *)
(* statements of the body.                                                 *)
(***************************************************************************)
ArgumentsFormals == {Id("arguments"), Id("a")}

ParseArgumentsFormal ==
  /\ phase = "parse"
  /\ Body(ast) = <<>>
  /\ Len(ParameterList(ast).kids) < MaxFormals
  /\ \E tgt \in ArgumentsFormals, ini \in {Nil, Num(1)} :
       LET i == Len(ParameterList(ast).kids) + 1
           item == Node("Binding", "", "", NoVal, ini # Nil, <<>>,
                        IF ini # Nil THEN <<At(tgt, i), ini>> ELSE <<At(tgt, i)>>, 10 * i)
       IN ast' = [ast EXCEPT !.kids[1].kids = Append(@, item)]
  /\ UNCHANGED <<node, phase, code, srcMap, err, scope, putOnStack, entry, prgs>>

NextArgs == ParseArgumentsFormal \/ ParseStatement \/ CompileLiteral \/ EmitGetter

SpecArgs == InitBody /\ [][NextArgs]_vars

HasArgumentsFormal ==
  \E i \in 1..Len(ParameterList(ast).kids) :
    /\ ParameterList(ast).kids[i].kids[1].kind = "Identifier"
    /\ ParameterList(ast).kids[i].kids[1].name = "arguments"

CallsEval == \E i \in 1..Len(Body(ast)) : Body(ast)[i].kids[1] = CallEval

\* C26: a finished function that has a formal parameter named `arguments`
\* has neither createArgsMapped nor createArgsUnmapped nor storeStashP(0)
\* in its code and its scope has argsNeeded cleared, whether its parameters
\* are simple or complex and whether or not its body calls eval directly.
C26_ArgumentsParameterKept ==
  FunctionFinished /\ HasArgumentsFormal =>
    /\ ~FuncScope.argsNeeded
    /\ \A i \in 1..Len(Func.code) :
         Func.code[i].op \notin CreateArgsOps /\ Func.code[i] # In("storeStashP", 0)

(***************************************************************************)
(* Dot and bracket expressions as targets: the statement compiler and the  *)
(* expression emitters call emitSetter, emitUnary, emitRef and emitCallee  *)
(* on a compiled expression.                                               *)
(***************************************************************************)
IsMember == node.kind \in {"compiledDotExpr", "compiledBracketExpr"}
IsBracket == node.kind = "compiledBracketExpr"

\* the value assigned by emitSetter and by a compound assignment
AssignedValue == Compiled(Id("g"), "compiledIdentifierExpr", <<>>)

\* expr.emitSetter(valueExpr, putOnStack), expr.emitUnary(prepare, body,
\* postfix, putOnStack) and expr.emitRef() called from outside
ExprSetter(e, valueExpr, put, st) ==
  Call("emitSetter", [e |-> e, valueExpr |-> valueExpr, put |-> put, st |-> st])
ExprUnary(e, prep, body, postfix, put, st) ==
  Call("emitUnary", [e |-> e, prepare |-> prep, body |-> body, postfix |-> postfix,
                     put |-> put, st |-> st])
ExprRef(e, st) == Call("emitRef", Args(e, FALSE, st))

\* target = g
EmitSetter ==
  /\ phase = "compiled" /\ err = "" /\ IsMember
  /\ \E put \in BOOLEAN :
       Emitted(ExprSetter(node, AssignedValue, put, Compiler), put, "emitSetter")

\* ++target, target++ and target += g
EmitUnary ==
  /\ phase = "compiled" /\ err = "" /\ IsMember
  /\ \E put \in BOOLEAN :
       \/ Emitted(ExprUnary(node, "toNumber", BodyInstr("inc"), FALSE, put, Compiler),
                  put, "emitUnary")
       \/ Emitted(ExprUnary(node, "toNumber", BodyInstr("inc"), TRUE, put, Compiler),
                  put, "emitUnaryPostfix")
       \/ Emitted(ExprUnary(node, NoPrepare, BodyAssign("add", AssignedValue), FALSE, put, Compiler),
                  put, "emitUnaryAssign")

EmitRef ==
  /\ phase = "compiled" /\ err = "" /\ IsMember
  /\ Emitted(ExprRef(node, Compiler), FALSE, "emitRef")

\* target(...)
EmitCallee ==
  /\ phase = "compiled" /\ err = "" /\ IsMember
  /\ Emitted(emitCallee(node, Compiler).st, TRUE, "emitCallee")

NextMember ==
  \/ ParseLeaf \/ ParseUnary \/ ParseBinary \/ ParseLogical \/ ParseConditional
  \/ ParseSequence \/ ParseCall \/ ParseNew \/ ParseMember \/ ParseAssign
  \/ ParseTemplate \/ ParseArray \/ ParseObject
  \/ CompileExpression \/ EmitSetter \/ EmitUnary \/ EmitRef \/ EmitCallee

SpecMember == Init /\ [][NextMember]_vars

\* the compiler after the base, after the base and the key, and the code of
\* each emitted once
Continue(st) == [st EXCEPT !.code = <<>>]
BaseState == emitGetter(Left(node), TRUE, Continue(Compiler))
KeyState ==
  IF IsBracket THEN emitGetter(Member(node), TRUE, Continue(BaseState)) ELSE Continue(BaseState)
BaseCode == BaseState.code
KeyCode == KeyState.code
AssignedCode == emitGetter(AssignedValue, TRUE, Continue(KeyState)).code

Strictly(plain, strict) == IF scope[Len(scope)].strict THEN strict ELSE plain
Named(op) == IF IsBracket THEN I0(op) ELSE Is(op, node.name)

RefCode == <<Named(IF IsBracket THEN Strictly("getElemRef", "getElemRefStrict")
                   ELSE Strictly("getPropRef", "getPropRefStrict"))>>
SetCode(put) ==
  <<Named(IF IsBracket
             THEN IF put THEN Strictly("setElem", "setElemStrict")
                         ELSE Strictly("setElemP", "setElemStrictP")
             ELSE IF put THEN Strictly("setProp", "setPropStrict")
                         ELSE Strictly("setPropP", "setPropStrictP"))>>
\* the copy for the write-back and the read
CopyCode ==
  IF IsBracket THEN <<In("dupN", 1), In("dupN", 1), I0("getElem")>>
  ELSE <<dup, Is("getProp", node.name)>>
WriteBack == SetCode(TRUE)
Saved == <<In("rdupN", IF IsBracket THEN 3 ELSE 2)>>

\* what follows the read in emitUnary
UnaryCode(en, put) ==
  CASE en = "emitUnary" ->
         (IF put THEN <<I0("toNumber")>> ELSE <<>>) \o <<I0("inc")>> \o WriteBack \o Popped(put)
    [] en = "emitUnaryPostfix" ->
         (IF put THEN <<I0("toNumber")>> \o Saved ELSE <<>>) \o <<I0("inc")>> \o WriteBack \o <<pop>>
    [] en = "emitUnaryAssign" -> AssignedCode \o <<I0("add")>> \o WriteBack \o Popped(put)

MemberCode(en, put) ==
  CASE en = "emitRef" -> BaseCode \o KeyCode \o RefCode
    [] en = "emitSetter" -> BaseCode \o KeyCode \o AssignedCode \o SetCode(put)
    [] en = "emitCallee" ->
         BaseCode \o <<dup>> \o KeyCode
           \o <<IF IsBracket THEN I0("getElemCallee") ELSE Is("getPropCallee", node.name)>>
    [] OTHER ->
         (IF en = "emitUnaryPostfix" /\ put THEN <<loadUndef>> ELSE <<>>)
           \o BaseCode \o KeyCode \o CopyCode \o UnaryCode(en, put)

EmitsMember == Emits /\ err' = ""

\* C27: emitSetter, emitUnary, emitRef and emitCallee of a dot or bracket
\* expression emit the code of the base, and of the key of a bracket
\* expression, once and before the code of the value or of the body, prefix
\* or postfix, with and without the result on the stack, strict or not; the
\* copy of base and key that the write-back needs is made by dup or dupN.
C27_BaseAndKeyEmittedOnce ==
  [][EmitsMember => code' = code \o MemberCode(entry', putOnStack')]_vars

\* g[1]++ with the old value as the result
C27_Witness ==
  /\ phase = "emitted"
  /\ err = ""
  /\ entry = "emitUnaryPostfix"
  /\ putOnStack
  /\ IsBracket
  /\ Left(node).kind = "compiledIdentifierExpr"
  /\ Len(code) = 11
  /\ SubSeq(Ops(code), 4, 11)
       = <<"dupN", "dupN", "getElem", "toNumber", "rdupN", "inc", "setElem", "pop">>

(***************************************************************************)
(* Placeholders: function literals whose parameters and statements use     *)
(* every construct that reserves a place in the code and fills it later.   *)
(***************************************************************************)
MaxSlotFormals == 2
MaxSlotBody == 2

Conditional(test) == Tree("ConditionalExpression", "", FALSE, <<test, Num(1), Id("b")>>)
Logical(tok) == Tree("BinaryExpression", tok, FALSE, <<Id("a"), Id("b")>>)

SlotTargets == {Id("a"), ObjectPattern(<<Id("c")>>), ArrayPattern(<<Default(Id("d"))>>, Nil)}
SlotInitializers == {Nil, Num(1), Conditional(Id("a")), CallEval}
SlotStatements ==
  {Tree("ExpressionStatement", "", FALSE, <<x>>) :
     x \in {Conditional(Logical("LOGICAL_OR")), Logical("LOGICAL_AND"), Id("arguments"), CallEval,
            Tree("ArrayLiteral", "", FALSE, <<Nil, Num(1), Tree("SpreadElement", "", FALSE, <<Id("a")>>)>>),
            Tree("AssignExpression", "ASSIGN", FALSE,
                 <<ArrayPattern(<<Default(Id("a"))>>, Nil), Id("b")>>)}}
  \cup {Tree("ReturnStatement", "", FALSE, <<Leaf("ThisExpression", "", NoVal, FALSE)>>)}

ParseSlotFormal ==
  /\ phase = "parse"
  /\ Body(ast) = <<>>
  /\ Len(ParameterList(ast).kids) < MaxSlotFormals
  /\ \E tgt \in SlotTargets, ini \in SlotInitializers :
       LET i == Len(ParameterList(ast).kids) + 1
           item == Node("Binding", "", "", NoVal, ini # Nil, <<>>,
                        IF ini # Nil THEN <<At(tgt, i), ini>> ELSE <<At(tgt, i)>>, 10 * i)
       IN ast' = [ast EXCEPT !.kids[1].kids = Append(@, item)]
  /\ UNCHANGED <<node, phase, code, srcMap, err, scope, putOnStack, entry, prgs>>

ParseSlotStatement ==
  /\ phase = "parse"
  /\ Len(Body(ast)) < MaxSlotBody
  /\ \E stmt \in SlotStatements : ast' = [ast EXCEPT !.kids[2].kids = Append(@, stmt)]
  /\ UNCHANGED <<node, phase, code, srcMap, err, scope, putOnStack, entry, prgs>>

NextSlots == ParseSlotFormal \/ ParseSlotStatement \/ CompileLiteral \/ EmitGetter

SpecSlots == InitBody /\ [][NextSlots]_vars

NoPlaceholder(c, from) == \A i \in from..Len(c) : c[i].op # "nil"

\* every relative jump of the code goes forward and not beyond its end
JumpsInside(c) ==
  \A i \in 1..Len(c) : c[i].op \in RelativeJumps => c[i].n > 0 /\ (i - 1) + c[i].n <= Len(c)

EmitsCode == Emits /\ err' = ""

\* C28: when an emitter returns without an error, the code it appended to
\* the current Program and the code of every Program it finished hold no
\* placeholder; every relative jump it wrote into a place was, when
\* written, positive and not beyond the end of the code, and so it is in
\* the finished code.
C28_NoPlaceholderRemains ==
  [][EmitsCode =>
       /\ NoPlaceholder(code', Len(code) + 1)
       /\ \A p \in (Len(prgs) + 1)..Len(prgs') :
            NoPlaceholder(prgs'[p].code, 1) /\ JumpsInside(prgs'[p].code)
       /\ JumpsInside(SubSeq(code', Len(code) + 1, Len(code')))
       /\ emitGetter(node, putOnStack', Compiler).jumpsOk]_vars

\* function (a = a ? 1 : b, [d = 1]) { a || b ? 1 : b; eval() }
C28_Witness ==
  /\ phase = "emitted"
  /\ err = ""
  /\ Len(prgs) >= 1
  /\ {"jne", "jump", "jeq1", "jdef", "jdefP", "enterFuncBody"} \subseteq {Func.code[i].op : i \in 1..Len(Func.code)}
  /\ \E i \in 1..Len(Func.code) : Func.code[i].op \in CreateArgsOps
  /\ NoPlaceholder(Func.code, 1)

====
